---------------------------- MODULE Spec2Model ----------------------------
(***************************************************************************)
(* Model of scripts/generate-daily.cjs (playdailyfive/daily5): the daily   *)
(* quiz generator.  One run of the script is a sequence of steps over the  *)
(* two persisted files daily.json and used.json.                           *)
(*                                                                         *)
(* Strings are sequences of character codes.  A 32-bit unsigned word is a  *)
(* pair <<hi, lo>> of 16-bit halves, since the hash and the PRNG of the    *)
(* script work modulo 2^32.                                                *)
(***************************************************************************)
EXTENDS Integers, Sequences, FiniteSets, TLC

-----------------------------------------------------------------------------
(* 32-bit word arithmetic (JavaScript >>> 0, ^, |, Math.imul).             *)

B8 == 256
B16 == 65536

\* 2^n for n in 0..16
Pow2Table == <<2, 4, 8, 16, 32, 64, 128, 256, 512, 1024, 2048, 4096, 8192, 16384, 32768, 65536>>
Pow2(n) == IF n = 0 THEN 1 ELSE Pow2Table[n]

\* bit i (0 = lowest) of a
Bit(a, i) == (a \div Pow2(i)) % 2

\* a ^ b and a | b on 16-bit halves, bit by bit
XorBit(a, b, i) == IF Bit(a, i) # Bit(b, i) THEN Pow2(i) ELSE 0
OrBit(a, b, i) == IF Bit(a, i) = 1 \/ Bit(b, i) = 1 THEN Pow2(i) ELSE 0

XorBits(a, b) ==
  LET X[i \in 0..16] == IF i = 16 THEN 0 ELSE XorBit(a, b, i) + X[i + 1]
  IN  IF a = 0 THEN b ELSE IF b = 0 THEN a ELSE X[0]

OrBits(a, b) ==
  LET O[i \in 0..16] == IF i = 16 THEN 0 ELSE OrBit(a, b, i) + O[i + 1]
  IN  IF a = 0 THEN b ELSE IF b = 0 THEN a ELSE O[0]

\* x ^ y on words
Xor32(x, y) == <<XorBits(x[1], y[1]), XorBits(x[2], y[2])>>

\* x | c for a constant c < 2^16
OrLow(x, c) == <<x[1], OrBits(x[2], c)>>

\* (x + y) >>> 0
Add32(x, y) ==
  LET lo == x[2] + y[2]
      hi == x[1] + y[1] + (lo \div B16)
  IN  <<hi % B16, lo % B16>>

\* x >>> n, for 0 < n <= 16
Shr32(x, n) ==
  LET p == Pow2(n)
      q == Pow2(16 - n)
  IN  <<x[1] \div p, ((x[1] % p) * q + (x[2] \div p)) % B16>>

\* (a * b) mod 2^16 for 16-bit a, b, without leaving 31 bits
MulMod16(a, b) == (a * (b % B8) + ((a * (b \div B8)) % B8) * B8) % B16

\* Math.imul(x, y) >>> 0
Imul32(x, y) ==
  LET p0  == x[2] * (y[2] % B8)
      p1  == x[2] * (y[2] \div B8)
      low == p0 + (p1 % B8) * B8
      car == (p1 \div B8) + (low \div B16)
      mid == MulMod16(x[1], y[2]) + MulMod16(x[2], y[1])
  IN  <<(car + mid) % B16, low % B16>>

\* a small non-negative integer as a word
WordOf(n) == <<n \div B16, n % B16>>

\* x << n (mod 2^32), for 0 < n < 32
Shl32(x, n) ==
  IF n < 16
  THEN LET p == Pow2(n)
           q == Pow2(16 - n)
       IN  <<((x[1] % q) * p + (x[2] \div q)) % B16, ((x[2] % q) * p) % B16>>
  ELSE LET p == Pow2(n - 16)
           q == Pow2(32 - n)
       IN  <<((x[2] % q) * p) % B16, 0>>

-----------------------------------------------------------------------------
(* Strings: sequences of UTF-16 code units.                                *)

\* TLC keeps [i \in 1..n |-> e] unevaluated and evaluates e at every use;
\* Tuple(s) is s with its elements evaluated once
Tuple(s) == s \o <<>>

\* the characters matched by \s that occur in the modelled texts
IsSpace(c) == c \in {9, 10, 13, 32, 160}
IsUpper(c) == c >= 65 /\ c <= 90
IsLower(c) == c >= 97 /\ c <= 122
ToLowerChar(c) == IF IsUpper(c) THEN c + 32 ELSE c

\* the indices 1..n as a sequence
Indices(n) == Tuple([i \in 1..n |-> i])

\* String.prototype.trim
Trim(s) ==
  LET keep == {i \in 1..Len(s) : ~IsSpace(s[i])}
  IN  IF keep = {} THEN <<>>
      ELSE SubSeq(s, CHOOSE i \in keep : \A j \in keep : i <= j,
                     CHOOSE i \in keep : \A j \in keep : i >= j)

\* s.replace(/\s+/g, ' '): every run of whitespace becomes one space
CollapseSpaces(s) ==
  LET idx == SelectSeq(Indices(Len(s)),
                       LAMBDA i : ~IsSpace(s[i]) \/ i = 1 \/ ~IsSpace(s[i - 1]))
  IN  Tuple([k \in 1..Len(idx) |-> IF IsSpace(s[idx[k]]) THEN 32 ELSE s[idx[k]]])

ToLowerCase(s) == Tuple([i \in 1..Len(s) |-> ToLowerChar(s[i])])

\* n.toString(16) digit, and the digit's value back (parseInt(_, 16))
HexChar(d) == IF d < 10 THEN 48 + d ELSE 87 + d
HexVal(c) == IF c >= 97 THEN c - 87 ELSE c - 48

\* the four hex digits of a 16-bit half
Hex4(n) ==
  <<HexChar(n \div 4096), HexChar((n \div 256) % 16), HexChar((n \div 16) % 16), HexChar(n % 16)>>

\* h.toString(16) of a word: no leading zeros, at least one digit
ToHex(w) ==
  LET all  == Hex4(w[1]) \o Hex4(w[2])
      sig  == {i \in 1..8 : all[i] # 48} \cup {8}
  IN  SubSeq(all, CHOOSE i \in sig : \A j \in sig : i <= j, 8)

\* s.slice(-n)
SliceLast(s, n) == IF Len(s) <= n THEN s ELSE SubSeq(s, Len(s) - n + 1, Len(s))

\* the value of at most four hex digits
ParseHexN(s) ==
  LET V[i \in 0..Len(s)] == IF i = 0 THEN 0 ELSE 16 * V[i - 1] + HexVal(s[i])
  IN  V[Len(s)]

\* parseInt(s, 16) >>> 0 for a string of at most 8 hex digits
ParseHex32(s) ==
  IF Len(s) <= 4 THEN <<0, ParseHexN(s)>>
  ELSE <<ParseHexN(SubSeq(s, 1, Len(s) - 4)), ParseHexN(SubSeq(s, Len(s) - 3, Len(s)))>>

-----------------------------------------------------------------------------
(* fnv1a, normalizeText, qKey (generate-daily.cjs 92-109).                 *)

FnvOffset == <<33052, 40389>>  \* 0x811c9dc5

\* h = (h + (h << 1) + (h << 4) + (h << 7) + (h << 8) + (h << 24)) >>> 0
FnvMul(h) ==
  Add32(h, Add32(Shl32(h, 1), Add32(Shl32(h, 4),
    Add32(Shl32(h, 7), Add32(Shl32(h, 8), Shl32(h, 24))))))

FnvStep(h0, c) == FnvMul(Xor32(h0, <<0, c>>))

\* n rounds of the loop, from character i on
\* (the test on prev makes TLC evaluate H[k - 1] before the step, not inside it)
FnvRounds(h0, str, i, n) ==
  LET H[k \in 0..n] ==
        IF k = 0 THEN h0
        ELSE LET prev == H[k - 1]
             IN  IF prev[1] >= 0 THEN FnvStep(prev, str[i + k - 1]) ELSE prev
  IN  H[n]

\* the loop over the characters of str, eight rounds at a time, so that the
\* evaluation does not nest as deep as str is long
FnvFold(str) ==
  LET B[k \in 0..((Len(str) + 7) \div 8)] ==
        IF k = 0 THEN FnvOffset
        ELSE LET prev == B[k - 1]
             IN  IF prev[1] >= 0
                 THEN FnvRounds(prev, str, 8 * k - 7, IF 8 * k <= Len(str) THEN 8 ELSE Len(str) % 8)
                 ELSE prev
  IN  B[(Len(str) + 7) \div 8]

fnv1a(str) == SliceLast(<<48, 48, 48, 48, 48, 48, 48>> \o ToHex(FnvFold(str)), 8)

\* a variant of normalizeText: whitespace runs are kept as they are
normalizeTextKeepsRuns(s) == ToLowerCase(Trim(s))

normalizeText(s) == ToLowerCase(Trim(CollapseSpaces(s)))

qKeyFromRaw(question, correct) ==
  fnv1a(normalizeText(question) \o <<124>> \o normalizeText(correct))

-----------------------------------------------------------------------------
(* mulberry32, seededShuffle (generate-daily.cjs 129-146).                 *)

MulberryInc == <<27947, 31221>>  \* 0x6D2B79F5

\* the three assignments to t, and the closure's call as <<new seed, output word>>;
\* the float returned is the output word divided by 2^32
MulberryFirst(t) == Imul32(Xor32(t, Shr32(t, 15)), OrLow(t, 1))
MulberrySecond(t) == Xor32(t, Add32(t, Imul32(Xor32(t, Shr32(t, 7)), OrLow(t, 61))))
MulberryLast(t) == Xor32(t, Shr32(t, 14))
MulberryStep(t) == <<t, MulberryLast(MulberrySecond(MulberryFirst(t)))>>

mulberry32(seed) == MulberryStep(Add32(seed, MulberryInc))

\* Math.floor(rand() * n) for 1 <= n <= 2^8, rand() = r / 2^32
FloorScale(r, n) == (r[1] * n + ((r[2] * n) \div B16)) \div B16

\* a variant of Swap: out[i] = out[j] alone
SwapOverwrites(s, i, j) == [s EXCEPT ![i] = s[j]]

Swap(s, i, j) == [s EXCEPT ![i] = s[j], ![j] = s[i]]

\* the loop for (i = out.length - 1; i > 0; i--), with i counted from 1;
\* r is <<new seed, output word>> of the call of rand() in the loop body
RECURSIVE ShuffleFrom(_, _, _)
RECURSIVE ShuffleWith(_, _, _)
ShuffleWith(out, i, r) == ShuffleFrom(Swap(out, i, FloorScale(r[2], i) + 1), i - 1, r[1])

ShuffleFrom(out, i, seed) ==
  IF i <= 1 THEN out ELSE ShuffleWith(out, i, mulberry32(seed))

seededShuffle(arr, seedNum) == ShuffleFrom(arr, Len(arr), seedNum)

-----------------------------------------------------------------------------
(* Tunables (generate-daily.cjs 29-70).                                    *)

START_DAY == <<50, 48, 50, 53, 48, 56, 50, 52>>  \* '20250824'
MAX_QUESTION_LEN == 110
MAX_OPTION_LEN == 36
RETRIES == 3

ALLOW_CATEGORIES ==
  {"General Knowledge", "Geography", "Science & Nature", "Entertainment: Film",
   "Entertainment: Music", "Entertainment: Television", "Entertainment: Books",
   "Sports", "Celebrities"}

\* The regular expressions of EASY_FILTER.BAN_PATTERNS, each a sequence of
\* atoms: "alt" one of the literal alternatives, "ws" \s+, "b" \b, "any" .*,
\* "digits" [0-9]{1,4}.  The last expression is listed once per branch of
\* its leading alternation.
BAN_PATTERNS ==
  <<
    \* /\b(in|which|what)\s+year\b/i
    [ci |-> TRUE, atoms |-> <<
       [t |-> "b", alts |-> <<>>],
       [t |-> "alt", alts |-> <<<<105, 110>>, <<119, 104, 105, 99, 104>>, <<119, 104, 97, 116>>>>],
       [t |-> "ws", alts |-> <<>>],
       [t |-> "alt", alts |-> <<<<121, 101, 97, 114>>>>],
       [t |-> "b", alts |-> <<>>]>>],
    \* /\bwhich of (the|these)\b/i
    [ci |-> TRUE, atoms |-> <<
       [t |-> "b", alts |-> <<>>],
       [t |-> "alt", alts |-> <<<<119, 104, 105, 99, 104, 32, 111, 102, 32>>>>],
       [t |-> "alt", alts |-> <<<<116, 104, 101>>, <<116, 104, 101, 115, 101>>>>],
       [t |-> "b", alts |-> <<>>]>>],
    \* /\bfollowing\b/i
    [ci |-> TRUE, atoms |-> <<
       [t |-> "b", alts |-> <<>>],
       [t |-> "alt", alts |-> <<<<102, 111, 108, 108, 111, 119, 105, 110, 103>>>>],
       [t |-> "b", alts |-> <<>>]>>],
    \* /\bNOT\b/
    [ci |-> FALSE, atoms |-> <<
       [t |-> "b", alts |-> <<>>],
       [t |-> "alt", alts |-> <<<<78, 79, 84>>>>],
       [t |-> "b", alts |-> <<>>]>>],
    \* /\bEXCEPT\b/
    [ci |-> FALSE, atoms |-> <<
       [t |-> "b", alts |-> <<>>],
       [t |-> "alt", alts |-> <<<<69, 88, 67, 69, 80, 84>>>>],
       [t |-> "b", alts |-> <<>>]>>],
    \* /\broman\s+numeral\b/i
    [ci |-> TRUE, atoms |-> <<
       [t |-> "b", alts |-> <<>>],
       [t |-> "alt", alts |-> <<<<114, 111, 109, 97, 110>>>>],
       [t |-> "ws", alts |-> <<>>],
       [t |-> "alt", alts |-> <<<<110, 117, 109, 101, 114, 97, 108>>>>],
       [t |-> "b", alts |-> <<>>]>>],
    \* /\bchemical\b/i
    [ci |-> TRUE, atoms |-> <<
       [t |-> "b", alts |-> <<>>],
       [t |-> "alt", alts |-> <<<<99, 104, 101, 109, 105, 99, 97, 108>>>>],
       [t |-> "b", alts |-> <<>>]>>],
    \* /\bformula\b/i
    [ci |-> TRUE, atoms |-> <<
       [t |-> "b", alts |-> <<>>],
       [t |-> "alt", alts |-> <<<<102, 111, 114, 109, 117, 108, 97>>>>],
       [t |-> "b", alts |-> <<>>]>>],
    \* /\bequation\b/i
    [ci |-> TRUE, atoms |-> <<
       [t |-> "b", alts |-> <<>>],
       [t |-> "alt", alts |-> <<<<101, 113, 117, 97, 116, 105, 111, 110>>>>],
       [t |-> "b", alts |-> <<>>]>>],
    \* /\bprime\s+number\b/i
    [ci |-> TRUE, atoms |-> <<
       [t |-> "b", alts |-> <<>>],
       [t |-> "alt", alts |-> <<<<112, 114, 105, 109, 101>>>>],
       [t |-> "ws", alts |-> <<>>],
       [t |-> "alt", alts |-> <<<<110, 117, 109, 98, 101, 114>>>>],
       [t |-> "b", alts |-> <<>>]>>],
    \* /\b(nth|...)\b.*\bcentury\b/i, branch nth
    [ci |-> TRUE, atoms |-> <<
       [t |-> "b", alts |-> <<>>],
       [t |-> "alt", alts |-> <<<<110, 116, 104>>>>],
       [t |-> "b", alts |-> <<>>],
       [t |-> "any", alts |-> <<>>],
       [t |-> "b", alts |-> <<>>],
       [t |-> "alt", alts |-> <<<<99, 101, 110, 116, 117, 114, 121>>>>],
       [t |-> "b", alts |-> <<>>]>>],
    \* /\b(...|[0-9]{1,4}(st|nd|rd|th))\b.*\bcentury\b/i, branch ordinal
    [ci |-> TRUE, atoms |-> <<
       [t |-> "b", alts |-> <<>>],
       [t |-> "digits", alts |-> <<>>],
       [t |-> "alt", alts |-> <<<<115, 116>>, <<110, 100>>, <<114, 100>>, <<116, 104>>>>],
       [t |-> "b", alts |-> <<>>],
       [t |-> "any", alts |-> <<>>],
       [t |-> "b", alts |-> <<>>],
       [t |-> "alt", alts |-> <<<<99, 101, 110, 116, 117, 114, 121>>>>],
       [t |-> "b", alts |-> <<>>]>>]
  >>

-----------------------------------------------------------------------------
(* Regular-expression matching as RegExp.prototype.test does it.           *)

IsWordChar(c) ==
  \/ IsUpper(c) \/ IsLower(c)
  \/ (c >= 48 /\ c <= 57)
  \/ c = 95

IsWordAt(text, i) == i >= 1 /\ i <= Len(text) /\ IsWordChar(text[i])
IsLineEnd(c) == c \in {10, 13, 8232, 8233}

SameChar(a, b, ci) == IF ci THEN ToLowerChar(a) = ToLowerChar(b) ELSE a = b

LitAt(text, pos, w, ci) ==
  /\ pos + Len(w) - 1 <= Len(text)
  /\ \A i \in 1..Len(w) : SameChar(text[pos + i - 1], w[i], ci)

\* pat.test(text): M[pos, k] says that atoms k.. of the pattern match the
\* text from position pos on
RegexTest(pat, text) ==
  LET M[pos \in 1..(Len(text) + 1), k \in 1..(Len(pat.atoms) + 1)] ==
        IF k > Len(pat.atoms) THEN TRUE
        ELSE LET a == pat.atoms[k]
                 left == Len(text) - pos + 1
             IN  CASE a.t = "alt" ->
                        \E n \in 1..Len(a.alts) :
                           /\ LitAt(text, pos, a.alts[n], pat.ci)
                           /\ M[pos + Len(a.alts[n]), k + 1]
                   [] a.t = "ws" ->
                        \E n \in 1..left :
                           /\ \A i \in pos..(pos + n - 1) : IsSpace(text[i])
                           /\ M[pos + n, k + 1]
                   [] a.t = "b" ->
                        /\ IsWordAt(text, pos - 1) # IsWordAt(text, pos)
                        /\ M[pos, k + 1]
                   [] a.t = "any" ->
                        \E n \in 0..left :
                           /\ \A i \in pos..(pos + n - 1) : ~IsLineEnd(text[i])
                           /\ M[pos + n, k + 1]
                   [] a.t = "digits" ->
                        \E n \in 1..4 :
                           /\ n <= left
                           /\ \A i \in pos..(pos + n - 1) : text[i] >= 48 /\ text[i] <= 57
                           /\ M[pos + n, k + 1]
  IN  \E pos \in 1..(Len(text) + 1) : M[pos, 1]

-----------------------------------------------------------------------------
(* Filters (generate-daily.cjs 148-187).  A question is a record           *)
(* [question, correct_answer, incorrect_answers, category, difficulty];    *)
(* a missing category or difficulty is the empty string.                   *)

isRelatableCategory(cat) == IF cat = "" THEN TRUE ELSE cat \in ALLOW_CATEGORIES

hasBannedPhrase(text) == \E p \in 1..Len(BAN_PATTERNS) : RegexTest(BAN_PATTERNS[p], text)

withinLength(q) ==
  LET all == SelectSeq(<<q.correct_answer>> \o q.incorrect_answers, LAMBDA o : o # <<>>)
  IN  IF Len(Trim(q.question)) > MAX_QUESTION_LEN THEN FALSE
      ELSE \A i \in 1..Len(all) : Len(Trim(all[i])) <= MAX_OPTION_LEN

\* (s.match(/[A-Z]/g) || []).length and the same for /[a-z]/g
CountUpper(s) == Cardinality({i \in 1..Len(s) : IsUpper(s[i])})
CountLower(s) == Cardinality({i \in 1..Len(s) : IsLower(s[i])})

passEasyFilter(q) ==
  LET qt == q.question
  IN  IF ~withinLength(q) THEN FALSE
      ELSE IF hasBannedPhrase(qt) THEN FALSE
      ELSE IF ~isRelatableCategory(q.category) THEN FALSE
      ELSE IF CountUpper(qt) > CountLower(qt) * 2 THEN FALSE
      ELSE TRUE

\* s starts with w
StartsWith(s, w) == Len(w) <= Len(s) /\ SubSeq(s, 1, Len(w)) = w

\* s.replace(/w/g, r) for a literal w
ReplaceAll(s, w, r) ==
  LET R[i \in 1..(Len(s) + 1)] ==
        IF i > Len(s) THEN <<>>
        ELSE IF StartsWith(SubSeq(s, i, Len(s)), w) THEN r \o R[i + Len(w)]
        ELSE <<s[i]>> \o R[i + 1]
  IN  R[1]

\* the entities basicClean decodes, in the order of its replace calls
Entities ==
  <<<<<<38, 113, 117, 111, 116, 59>>, <<34>>>>,
    <<<<38, 35, 48, 51, 57, 59>>, <<39>>>>,
    <<<<38, 97, 109, 112, 59>>, <<38>>>>,
    <<<<38, 114, 115, 113, 117, 111, 59>>, <<39>>>>,
    <<<<38, 108, 100, 113, 117, 111, 59>>, <<34>>>>,
    <<<<38, 114, 100, 113, 117, 111, 59>>, <<34>>>>,
    <<<<38, 101, 97, 99, 117, 116, 101, 59>>, <<233>>>>,
    <<<<38, 104, 101, 108, 108, 105, 112, 59>>, <<8230>>>>,
    <<<<38, 109, 100, 97, 115, 104, 59>>, <<8212>>>>,
    <<<<38, 110, 100, 97, 115, 104, 59>>, <<8211>>>>,
    <<<<38, 110, 98, 115, 112, 59>>, <<32>>>>>>
decode(s) ==
  LET D[k \in 0..Len(Entities)] ==
        IF k = 0 THEN s ELSE ReplaceAll(D[k - 1], Entities[k][1], Entities[k][2])
  IN  D[Len(Entities)]

\* (key is not a property of the objects of the program: it holds qKey(q),
\* a pure function of question and correct_answer, which nothing changes
\* after basicClean, so that qKey is computed once per question)
WithKey(q) ==
  [category |-> q.category, difficulty |-> q.difficulty, question |-> q.question,
   correct_answer |-> q.correct_answer, incorrect_answers |-> q.incorrect_answers,
   key |-> qKeyFromRaw(q.question, q.correct_answer)]

basicClean(q) ==
  LET text == [i \in 1..(Len(q.incorrect_answers) + 2) |->
                 decode(IF i = 1 THEN q.question
                        ELSE IF i = 2 THEN q.correct_answer
                        ELSE q.incorrect_answers[i - 2])]
  IN  WithKey([category |-> q.category,
               difficulty |-> q.difficulty,
               question |-> text[1],
               correct_answer |-> text[2],
               incorrect_answers |-> Tuple([i \in 1..Len(q.incorrect_answers) |-> text[i + 2]])])

-----------------------------------------------------------------------------
(* Results the trivia API may return (raw, HTML-encoded as OpenTDB sends them). *)

\* "Peru capital?" -> "Lima" (Quito, Cusco, La Paz)
E1 ==
  [question |-> <<80, 101, 114, 117, 32, 99, 97, 112, 105, 116, 97, 108, 63>>,
   correct_answer |-> <<76, 105, 109, 97>>,
   incorrect_answers |-> <<<<81, 117, 105, 116, 111>>, <<67, 117, 115, 99, 111>>, <<76, 97, 32, 80, 97, 122>>>>,
   category |-> "General Knowledge", difficulty |-> "easy"]

\* "Largest ocean?" -> "Pacific" (Arctic, Indian, Pacific)
E2 ==
  [question |-> <<76, 97, 114, 103, 101, 115, 116, 32, 111, 99, 101, 97, 110, 63>>,
   correct_answer |-> <<80, 97, 99, 105, 102, 105, 99>>,
   incorrect_answers |-> <<<<65, 114, 99, 116, 105, 99>>, <<73, 110, 100, 105, 97, 110>>, <<80, 97, 99, 105, 102, 105, 99>>>>,
   category |-> "General Knowledge", difficulty |-> "easy"]

\* "Who sang &quot;Hello&quot;?" -> "Adele" (Cher, Sia, Bjork)
E3 ==
  [question |-> <<87, 104, 111, 32, 115, 97, 110, 103, 32, 38, 113, 117, 111, 116, 59, 72, 101, 108, 108, 111, 38, 113, 117, 111, 116, 59, 63>>,
   correct_answer |-> <<65, 100, 101, 108, 101>>,
   incorrect_answers |-> <<<<67, 104, 101, 114>>, <<83, 105, 97>>, <<66, 106, 111, 114, 107>>>>,
   category |-> "Entertainment: Music", difficulty |-> "easy"]

\* "Wimbledon sport?" -> "Tennis" (Golf, Polo, Rugby)
E4 ==
  [question |-> <<87, 105, 109, 98, 108, 101, 100, 111, 110, 32, 115, 112, 111, 114, 116, 63>>,
   correct_answer |-> <<84, 101, 110, 110, 105, 115>>,
   incorrect_answers |-> <<<<71, 111, 108, 102>>, <<80, 111, 108, 111>>, <<82, 117, 103, 98, 121>>>>,
   category |-> "Sports", difficulty |-> "easy"]

\* "Mario&#039;s brother?" -> "Luigi" (Wario, Toad, Yoshi)
E5 ==
  [question |-> <<77, 97, 114, 105, 111, 38, 35, 48, 51, 57, 59, 115, 32, 98, 114, 111, 116, 104, 101, 114, 63>>,
   correct_answer |-> <<76, 117, 105, 103, 105>>,
   incorrect_answers |-> <<<<87, 97, 114, 105, 111>>, <<84, 111, 97, 100>>, <<89, 111, 115, 104, 105>>>>,
   category |-> "Entertainment: Video Games", difficulty |-> "easy"]

\* "Dracula author?" -> "Bram Stoker" (Mary Shelley, Poe, Wilde)
M1 ==
  [question |-> <<68, 114, 97, 99, 117, 108, 97, 32, 97, 117, 116, 104, 111, 114, 63>>,
   correct_answer |-> <<66, 114, 97, 109, 32, 83, 116, 111, 107, 101, 114>>,
   incorrect_answers |-> <<<<77, 97, 114, 121, 32, 83, 104, 101, 108, 108, 101, 121>>, <<80, 111, 101>>, <<87, 105, 108, 100, 101>>>>,
   category |-> "Entertainment: Books", difficulty |-> "medium"]

\* "Tallest peak?" -> "Everest" (K2, Denali, Fuji)
M2 ==
  [question |-> <<84, 97, 108, 108, 101, 115, 116, 32, 112, 101, 97, 107, 63>>,
   correct_answer |-> <<69, 118, 101, 114, 101, 115, 116>>,
   incorrect_answers |-> <<<<75, 50>>, <<68, 101, 110, 97, 108, 105>>, <<70, 117, 106, 105>>>>,
   category |-> "Geography", difficulty |-> "medium"]

\* "Days in a week?" -> "7" (5, 6, 8)
M3 ==
  [question |-> <<68, 97, 121, 115, 32, 105, 110, 32, 97, 32, 119, 101, 101, 107, 63>>,
   correct_answer |-> <<55>>,
   incorrect_answers |-> <<<<53>>, <<54>>, <<56>>>>,
   category |-> "General Knowledge", difficulty |-> "medium"]

\* " PERU   capital? " -> "LIMA" (Quito, Cusco, Lima, Ohio)
M4 ==
  [question |-> <<32, 80, 69, 82, 85, 32, 32, 32, 99, 97, 112, 105, 116, 97, 108, 63, 32>>,
   correct_answer |-> <<76, 73, 77, 65>>,
   incorrect_answers |-> <<<<81, 117, 105, 116, 111>>, <<67, 117, 115, 99, 111>>, <<76, 105, 109, 97, 44, 32, 79, 104, 105, 111>>>>,
   category |-> "General Knowledge", difficulty |-> "medium"]

\* "Lightest element?" -> "Hydrogen" (Helium, Neon, Argon)
H1 ==
  [question |-> <<76, 105, 103, 104, 116, 101, 115, 116, 32, 101, 108, 101, 109, 101, 110, 116, 63>>,
   correct_answer |-> <<72, 121, 100, 114, 111, 103, 101, 110>>,
   incorrect_answers |-> <<<<72, 101, 108, 105, 117, 109>>, <<78, 101, 111, 110>>, <<65, 114, 103, 111, 110>>>>,
   category |-> "", difficulty |-> "hard"]

\* "Which is NOT a fruit?" -> "Carrot" (Apple, Pear, Plum)
H2 ==
  [question |-> <<87, 104, 105, 99, 104, 32, 105, 115, 32, 78, 79, 84, 32, 97, 32, 102, 114, 117, 105, 116, 63>>,
   correct_answer |-> <<67, 97, 114, 114, 111, 116>>,
   incorrect_answers |-> <<<<65, 112, 112, 108, 101>>, <<80, 101, 97, 114>>, <<80, 108, 117, 109>>>>,
   category |-> "General Knowledge", difficulty |-> "hard"]

\* "Chess pieces per side?" -> "16" (12, 14, 18)
H3 ==
  [question |-> <<67, 104, 101, 115, 115, 32, 112, 105, 101, 99, 101, 115, 32, 112, 101, 114, 32, 115, 105, 100, 101, 63>>,
   correct_answer |-> <<49, 54>>,
   incorrect_answers |-> <<<<49, 50>>, <<49, 52>>, <<49, 56>>>>,
   category |-> "General Knowledge", difficulty |-> "hard"]

(* Items the LLM may return ({text, options, correct, category, difficulty}). *)

\* "Legs on a spider?" (6, 8, 10, 12), correct 1
L1 ==
  [text |-> <<76, 101, 103, 115, 32, 111, 110, 32, 97, 32, 115, 112, 105, 100, 101, 114, 63>>,
   options |-> <<<<54>>, <<56>>, <<49, 48>>, <<49, 50>>>>,
   correct |-> 1, category |-> "General Knowledge", difficulty |-> "easy"]

\* "Olympic rings?" (5, 4, 6, 7), correct 0
L2 ==
  [text |-> <<79, 108, 121, 109, 112, 105, 99, 32, 114, 105, 110, 103, 115, 63>>,
   options |-> <<<<53>>, <<52>>, <<54>>, <<55>>>>,
   correct |-> 0, category |-> "Sports", difficulty |-> "medium"]

\* "Moons of Mars?" (1, 2, 3, 4), correct 4
L3 ==
  [text |-> <<77, 111, 111, 110, 115, 32, 111, 102, 32, 77, 97, 114, 115, 63>>,
   options |-> <<<<49>>, <<50>>, <<51>>, <<52>>>>,
   correct |-> 4, category |-> "", difficulty |-> "easy"]

\* "Largest  OCEAN?" (Atlantic, pacific, Indian, Arctic), correct 1
L4 ==
  [text |-> <<76, 97, 114, 103, 101, 115, 116, 32, 32, 79, 67, 69, 65, 78, 63>>,
   options |-> <<<<65, 116, 108, 97, 110, 116, 105, 99>>, <<112, 97, 99, 105, 102, 105, 99>>, <<73, 110, 100, 105, 97, 110>>, <<65, 114, 99, 116, 105, 99>>>>,
   correct |-> 1, category |-> "Geography", difficulty |-> "easy"]

\* "WHO IS he?" (Bo, Al, Ed, Cy), correct 0: five capitals, two small letters
L5 ==
  [text |-> <<87, 72, 79, 32, 73, 83, 32, 104, 101, 63>>,
   options |-> <<<<66, 111>>, <<65, 108>>, <<69, 100>>, <<67, 121>>>>,
   correct |-> 0, category |-> "General Knowledge", difficulty |-> "easy"]

\* "Longest river?" (Nile, Amazon, Volga, "The Mississippi with the Missouri too"), correct 0: an option of 37 characters
L6 ==
  [text |-> <<76, 111, 110, 103, 101, 115, 116, 32, 114, 105, 118, 101, 114, 63>>,
   options |-> <<<<78, 105, 108, 101>>, <<65, 109, 97, 122, 111, 110>>, <<86, 111, 108, 103, 97>>, <<84, 104, 101, 32, 77, 105, 115, 115, 105, 115, 115, 105, 112, 112, 105, 32, 119, 105, 116, 104, 32, 116, 104, 101, 32, 77, 105, 115, 115, 111, 117, 114, 105, 32, 116, 111, 111>>>>,
   correct |-> 0, category |-> "General Knowledge", difficulty |-> "easy"]

-----------------------------------------------------------------------------
(* What the outside world may supply.                                      *)

Difficulties == {"easy", "medium", "hard"}

\* JSON bodies of the trivia API, per requested difficulty; the last one
\* carries no results array
ApiData ==
  [easy   |-> {[hasResults |-> TRUE, results |-> <<E1, E2, E3, E4, E5>>],
               [hasResults |-> TRUE, results |-> <<E3, E4>>]},
   medium |-> {[hasResults |-> TRUE, results |-> <<M1, M2, M3, M4>>],
               [hasResults |-> TRUE, results |-> <<M1, M2, M3>>]},
   hard   |-> {[hasResults |-> TRUE, results |-> <<H1, H2, H3>>],
               [hasResults |-> FALSE, results |-> <<>>]}]

\* parsed arrays of the LLM's answer
LlmOutputs == {<<L5, L6, L2, L4, L1, L3, L1>>}

\* values of process.env.REROLL_NONCE || '': '' and 'abc'
Nonces == {<<>>, <<97, 98, 99>>}

-----------------------------------------------------------------------------
(* Bounds of the model.                                                    *)

MaxRuns == 2   \* runs of the script
MaxDay == 1    \* ET calendar days the clock passes through

FirstDay == <<2025, 8, 31>>

-----------------------------------------------------------------------------
(* Day/index calculator (generate-daily.cjs 73-90).                        *)

Digit(n) == 48 + n
Pad2(n) == <<Digit(n \div 10), Digit(n % 10)>>
Pad4(n) == <<Digit(n \div 1000), Digit((n \div 100) % 10), Digit((n \div 10) % 10), Digit(n % 10)>>

\* the ET civil date <<y, m, d>> formatted as YYYYMMDD
yyyymmdd(c) == Pad4(c[1]) \o Pad2(c[2]) \o Pad2(c[3])

\* Number(s) for a string of decimal digits
RECURSIVE ParseDec(_)
ParseDec(s) == IF s = <<>> THEN 0 ELSE 10 * ParseDec(SubSeq(s, 1, Len(s) - 1)) + (s[Len(s)] - 48)

\* Date.UTC(y, m - 1, d) / 86400000: days since 1970-01-01
DateUTCDays(y, m, d) ==
  LET yy  == IF m <= 2 THEN y - 1 ELSE y
      era == yy \div 400
      yoe == yy - era * 400
      mp  == IF m > 2 THEN m - 3 ELSE m + 9
      doy == (153 * mp + 2) \div 5 + d - 1
      doe == yoe * 365 + yoe \div 4 - yoe \div 100 + doy
  IN  era * 146097 + doe - 719468

\* toUTCDate, in days instead of milliseconds
toUTCDate(s) ==
  DateUTCDays(ParseDec(SubSeq(s, 1, 4)), ParseDec(SubSeq(s, 5, 6)), ParseDec(SubSeq(s, 7, 8)))

Max(a, b) == IF a >= b THEN a ELSE b
Min(a, b) == IF a <= b THEN a ELSE b

\* a variant of dayIndexFrom: the difference is not clamped at 0
dayIndexFromUnclamped(startYmd, todayYmd) == 1 + (toUTCDate(todayYmd) - toUTCDate(startYmd))

dayIndexFrom(startYmd, todayYmd) == 1 + Max(0, toUTCDate(todayYmd) - toUTCDate(startYmd))

IsLeap(y) == (y % 4 = 0 /\ y % 100 # 0) \/ y % 400 = 0
DaysInMonth(y, m) ==
  IF m = 2 THEN (IF IsLeap(y) THEN 29 ELSE 28)
  ELSE IF m \in {4, 6, 9, 11} THEN 30 ELSE 31

\* the civil date after c
NextDate(c) ==
  IF c[3] < DaysInMonth(c[1], c[2]) THEN <<c[1], c[2], c[3] + 1>>
  ELSE IF c[2] < 12 THEN <<c[1], c[2] + 1, 1>>
  ELSE <<c[1] + 1, 1, 1>>

-----------------------------------------------------------------------------
(* Pools, keys, selection (generate-daily.cjs 189-195, 238-244, 280-403).  *)

\* fetchPool's value for a parsed body
fetchPool(data) ==
  LET list == IF data.hasResults THEN data.results ELSE <<>>
  IN  Tuple([i \in 1..Len(list) |-> basicClean(list[i])])

\* generateWithLLM's normalisation of one parsed item
LlmNormalize(q) ==
  [category |-> IF q.category = "" THEN "General Knowledge" ELSE q.category,
   question |-> q.text,
   correct_answer |-> IF q.correct + 1 \in 1..Len(q.options) THEN q.options[q.correct + 1] ELSE <<>>,
   incorrect_answers |->
     LET idx == SelectSeq(Indices(Len(q.options)), LAMBDA i : i # q.correct + 1)
     IN  Tuple([k \in 1..Len(idx) |-> q.options[idx[k]]]),
   difficulty |-> IF q.difficulty = "" THEN "easy" ELSE q.difficulty]

generateWithLLM(parsed) == Tuple([i \in 1..Len(parsed) |-> LlmNormalize(parsed[i])])

\* the values the three fetchPool promises and generateWithLLM can resolve to
AsPools(f) == [easy |-> f["easy"], medium |-> f["medium"], hard |-> f["hard"]]

PoolValues == AsPools([d \in Difficulties |-> {fetchPool(data) : data \in ApiData[d]}])
LlmValues == {generateWithLLM(o) : o \in LlmOutputs}

Range(s) == {s[i] : i \in 1..Len(s)}

\* every question record a run can hold
KnownQuestions ==
  UNION ({Range(v) : v \in UNION {PoolValues[d] : d \in Difficulties}}
         \cup {Range(Tuple([i \in 1..Len(v) |-> basicClean(v[i])])) : v \in LlmValues})

\* the built-in bank of the variant with a fallback bank (src/unnamed/part_004)
FALLBACK_BANK ==
  <<
    \* "What color are bananas when ripe?" (Yellow, Blue, Purple, Black)
    [t |-> <<87, 104, 97, 116, 32, 99, 111, 108, 111, 114, 32, 97, 114, 101, 32, 98, 97, 110, 97, 110, 97, 115, 32, 119, 104, 101, 110, 32, 114, 105, 112, 101, 63>>,
     o |-> <<<<89, 101, 108, 108, 111, 119>>, <<66, 108, 117, 101>>, <<80, 117, 114, 112, 108, 101>>, <<66, 108, 97, 99, 107>>>>,
     c |-> 0, d |-> "easy"],
    \* "How many days are in a week?" (7, 5, 10, 8)
    [t |-> <<72, 111, 119, 32, 109, 97, 110, 121, 32, 100, 97, 121, 115, 32, 97, 114, 101, 32, 105, 110, 32, 97, 32, 119, 101, 101, 107, 63>>,
     o |-> <<<<55>>, <<53>>, <<49, 48>>, <<56>>>>,
     c |-> 0, d |-> "easy"],
    \* "Which animal says 'meow'?" (Cat, Dog, Cow, Sheep)
    [t |-> <<87, 104, 105, 99, 104, 32, 97, 110, 105, 109, 97, 108, 32, 115, 97, 121, 115, 32, 39, 109, 101, 111, 119, 39, 63>>,
     o |-> <<<<67, 97, 116>>, <<68, 111, 103>>, <<67, 111, 119>>, <<83, 104, 101, 101, 112>>>>,
     c |-> 0, d |-> "easy"],
    \* "What do bees make?" (Honey, Cheese, Jam, Butter)
    [t |-> <<87, 104, 97, 116, 32, 100, 111, 32, 98, 101, 101, 115, 32, 109, 97, 107, 101, 63>>,
     o |-> <<<<72, 111, 110, 101, 121>>, <<67, 104, 101, 101, 115, 101>>, <<74, 97, 109>>, <<66, 117, 116, 116, 101, 114>>>>,
     c |-> 0, d |-> "easy"],
    \* "Which is the largest planet?" (Jupiter, Mars, Earth, Venus)
    [t |-> <<87, 104, 105, 99, 104, 32, 105, 115, 32, 116, 104, 101, 32, 108, 97, 114, 103, 101, 115, 116, 32, 112, 108, 97, 110, 101, 116, 63>>,
     o |-> <<<<74, 117, 112, 105, 116, 101, 114>>, <<77, 97, 114, 115>>, <<69, 97, 114, 116, 104>>, <<86, 101, 110, 117, 115>>>>,
     c |-> 0, d |-> "easy"],
    \* "What is H2O commonly called?" (Water, Oxygen, Salt, Hydrogen)
    [t |-> <<87, 104, 97, 116, 32, 105, 115, 32, 72, 50, 79, 32, 99, 111, 109, 109, 111, 110, 108, 121, 32, 99, 97, 108, 108, 101, 100, 63>>,
     o |-> <<<<87, 97, 116, 101, 114>>, <<79, 120, 121, 103, 101, 110>>, <<83, 97, 108, 116>>, <<72, 121, 100, 114, 111, 103, 101, 110>>>>,
     c |-> 0, d |-> "easy"],
    \* "How many minutes are in an hour?" (60, 30, 90, 120)
    [t |-> <<72, 111, 119, 32, 109, 97, 110, 121, 32, 109, 105, 110, 117, 116, 101, 115, 32, 97, 114, 101, 32, 105, 110, 32, 97, 110, 32, 104, 111, 117, 114, 63>>,
     o |-> <<<<54, 48>>, <<51, 48>>, <<57, 48>>, <<49, 50, 48>>>>,
     c |-> 0, d |-> "easy"],
    \* "What is 2 + 2?" (4, 3, 5, 6)
    [t |-> <<87, 104, 97, 116, 32, 105, 115, 32, 50, 32, 43, 32, 50, 63>>,
     o |-> <<<<52>>, <<51>>, <<53>>, <<54>>>>,
     c |-> 0, d |-> "easy"],
    \* "Which season is the coldest (in most places)?" (Winter, Summer, Spring, Fall)
    [t |-> <<87, 104, 105, 99, 104, 32, 115, 101, 97, 115, 111, 110, 32, 105, 115, 32, 116, 104, 101, 32, 99, 111, 108, 100, 101, 115, 116, 32, 40, 105, 110, 32, 109, 111, 115, 116, 32, 112, 108, 97, 99, 101, 115, 41, 63>>,
     o |-> <<<<87, 105, 110, 116, 101, 114>>, <<83, 117, 109, 109, 101, 114>>, <<83, 112, 114, 105, 110, 103>>, <<70, 97, 108, 108>>>>,
     c |-> 0, d |-> "easy"],
    \* "Which shape has 3 sides?" (Triangle, Square, Circle, Pentagon)
    [t |-> <<87, 104, 105, 99, 104, 32, 115, 104, 97, 112, 101, 32, 104, 97, 115, 32, 51, 32, 115, 105, 100, 101, 115, 63>>,
     o |-> <<<<84, 114, 105, 97, 110, 103, 108, 101>>, <<83, 113, 117, 97, 114, 101>>, <<67, 105, 114, 99, 108, 101>>, <<80, 101, 110, 116, 97, 103, 111, 110>>>>,
     c |-> 0, d |-> "easy"],
    \* "Which ocean is the largest?" (Pacific, Atlantic, Indian, Arctic)
    [t |-> <<87, 104, 105, 99, 104, 32, 111, 99, 101, 97, 110, 32, 105, 115, 32, 116, 104, 101, 32, 108, 97, 114, 103, 101, 115, 116, 63>>,
     o |-> <<<<80, 97, 99, 105, 102, 105, 99>>, <<65, 116, 108, 97, 110, 116, 105, 99>>, <<73, 110, 100, 105, 97, 110>>, <<65, 114, 99, 116, 105, 99>>>>,
     c |-> 0, d |-> "medium"],
    \* "What gas do plants breathe in?" (Carbon dioxide, Oxygen, Nitrogen, Helium)
    [t |-> <<87, 104, 97, 116, 32, 103, 97, 115, 32, 100, 111, 32, 112, 108, 97, 110, 116, 115, 32, 98, 114, 101, 97, 116, 104, 101, 32, 105, 110, 63>>,
     o |-> <<<<67, 97, 114, 98, 111, 110, 32, 100, 105, 111, 120, 105, 100, 101>>, <<79, 120, 121, 103, 101, 110>>, <<78, 105, 116, 114, 111, 103, 101, 110>>, <<72, 101, 108, 105, 117, 109>>>>,
     c |-> 0, d |-> "medium"],
    \* "Which country gifted the Statue of Liberty to the USA?" (France, Spain, UK, Canada)
    [t |-> <<87, 104, 105, 99, 104, 32, 99, 111, 117, 110, 116, 114, 121, 32, 103, 105, 102, 116, 101, 100, 32, 116, 104, 101, 32, 83, 116, 97, 116, 117, 101, 32, 111, 102, 32, 76, 105, 98, 101, 114, 116, 121, 32, 116, 111, 32, 116, 104, 101, 32, 85, 83, 65, 63>>,
     o |-> <<<<70, 114, 97, 110, 99, 101>>, <<83, 112, 97, 105, 110>>, <<85, 75>>, <<67, 97, 110, 97, 100, 97>>>>,
     c |-> 0, d |-> "medium"],
    \* "How many continents are there?" (7, 5, 6, 8)
    [t |-> <<72, 111, 119, 32, 109, 97, 110, 121, 32, 99, 111, 110, 116, 105, 110, 101, 110, 116, 115, 32, 97, 114, 101, 32, 116, 104, 101, 114, 101, 63>>,
     o |-> <<<<55>>, <<53>>, <<54>>, <<56>>>>,
     c |-> 0, d |-> "medium"],
    \* "Which instrument has keys, pedals, and strings?" (Piano, Flute, Drum, Violin)
    [t |-> <<87, 104, 105, 99, 104, 32, 105, 110, 115, 116, 114, 117, 109, 101, 110, 116, 32, 104, 97, 115, 32, 107, 101, 121, 115, 44, 32, 112, 101, 100, 97, 108, 115, 44, 32, 97, 110, 100, 32, 115, 116, 114, 105, 110, 103, 115, 63>>,
     o |-> <<<<80, 105, 97, 110, 111>>, <<70, 108, 117, 116, 101>>, <<68, 114, 117, 109>>, <<86, 105, 111, 108, 105, 110>>>>,
     c |-> 0, d |-> "medium"],
    \* "Which sport uses a shuttlecock?" (Badminton, Tennis, Cricket, Baseball)
    [t |-> <<87, 104, 105, 99, 104, 32, 115, 112, 111, 114, 116, 32, 117, 115, 101, 115, 32, 97, 32, 115, 104, 117, 116, 116, 108, 101, 99, 111, 99, 107, 63>>,
     o |-> <<<<66, 97, 100, 109, 105, 110, 116, 111, 110>>, <<84, 101, 110, 110, 105, 115>>, <<67, 114, 105, 99, 107, 101, 116>>, <<66, 97, 115, 101, 98, 97, 108, 108>>>>,
     c |-> 0, d |-> "medium"],
    \* "Which metal is liquid at room temperature?" (Mercury, Iron, Gold, Aluminum)
    [t |-> <<87, 104, 105, 99, 104, 32, 109, 101, 116, 97, 108, 32, 105, 115, 32, 108, 105, 113, 117, 105, 100, 32, 97, 116, 32, 114, 111, 111, 109, 32, 116, 101, 109, 112, 101, 114, 97, 116, 117, 114, 101, 63>>,
     o |-> <<<<77, 101, 114, 99, 117, 114, 121>>, <<73, 114, 111, 110>>, <<71, 111, 108, 100>>, <<65, 108, 117, 109, 105, 110, 117, 109>>>>,
     c |-> 0, d |-> "medium"],
    \* "Which planet is known as the Red Planet?" (Mars, Neptune, Saturn, Mercury)
    [t |-> <<87, 104, 105, 99, 104, 32, 112, 108, 97, 110, 101, 116, 32, 105, 115, 32, 107, 110, 111, 119, 110, 32, 97, 115, 32, 116, 104, 101, 32, 82, 101, 100, 32, 80, 108, 97, 110, 101, 116, 63>>,
     o |-> <<<<77, 97, 114, 115>>, <<78, 101, 112, 116, 117, 110, 101>>, <<83, 97, 116, 117, 114, 110>>, <<77, 101, 114, 99, 117, 114, 121>>>>,
     c |-> 0, d |-> "medium"],
    \* "Which country has the most natural lakes?" (Canada, USA, Russia, Brazil)
    [t |-> <<87, 104, 105, 99, 104, 32, 99, 111, 117, 110, 116, 114, 121, 32, 104, 97, 115, 32, 116, 104, 101, 32, 109, 111, 115, 116, 32, 110, 97, 116, 117, 114, 97, 108, 32, 108, 97, 107, 101, 115, 63>>,
     o |-> <<<<67, 97, 110, 97, 100, 97>>, <<85, 83, 65>>, <<82, 117, 115, 115, 105, 97>>, <<66, 114, 97, 122, 105, 108>>>>,
     c |-> 0, d |-> "hard"],
    \* "Which vitamin do we mainly get from sunlight?" (Vitamin D, Vitamin C, Vitamin A, Vitamin B12)
    [t |-> <<87, 104, 105, 99, 104, 32, 118, 105, 116, 97, 109, 105, 110, 32, 100, 111, 32, 119, 101, 32, 109, 97, 105, 110, 108, 121, 32, 103, 101, 116, 32, 102, 114, 111, 109, 32, 115, 117, 110, 108, 105, 103, 104, 116, 63>>,
     o |-> <<<<86, 105, 116, 97, 109, 105, 110, 32, 68>>, <<86, 105, 116, 97, 109, 105, 110, 32, 67>>, <<86, 105, 116, 97, 109, 105, 110, 32, 65>>, <<86, 105, 116, 97, 109, 105, 110, 32, 66, 49, 50>>>>,
     c |-> 0, d |-> "hard"],
    \* "The Great Barrier Reef is off the coast of which country?" (Australia, New Zealand, Fiji, Indonesia)
    [t |-> <<84, 104, 101, 32, 71, 114, 101, 97, 116, 32, 66, 97, 114, 114, 105, 101, 114, 32, 82, 101, 101, 102, 32, 105, 115, 32, 111, 102, 102, 32, 116, 104, 101, 32, 99, 111, 97, 115, 116, 32, 111, 102, 32, 119, 104, 105, 99, 104, 32, 99, 111, 117, 110, 116, 114, 121, 63>>,
     o |-> <<<<65, 117, 115, 116, 114, 97, 108, 105, 97>>, <<78, 101, 119, 32, 90, 101, 97, 108, 97, 110, 100>>, <<70, 105, 106, 105>>, <<73, 110, 100, 111, 110, 101, 115, 105, 97>>>>,
     c |-> 0, d |-> "hard"],
    \* "What is the tallest mammal?" (Giraffe, Elephant, Moose, Camel)
    [t |-> <<87, 104, 97, 116, 32, 105, 115, 32, 116, 104, 101, 32, 116, 97, 108, 108, 101, 115, 116, 32, 109, 97, 109, 109, 97, 108, 63>>,
     o |-> <<<<71, 105, 114, 97, 102, 102, 101>>, <<69, 108, 101, 112, 104, 97, 110, 116>>, <<77, 111, 111, 115, 101>>, <<67, 97, 109, 101, 108>>>>,
     c |-> 0, d |-> "hard"],
    \* "Which language has the most native speakers?" (Mandarin Chinese, English, Spanish, Hindi)
    [t |-> <<87, 104, 105, 99, 104, 32, 108, 97, 110, 103, 117, 97, 103, 101, 32, 104, 97, 115, 32, 116, 104, 101, 32, 109, 111, 115, 116, 32, 110, 97, 116, 105, 118, 101, 32, 115, 112, 101, 97, 107, 101, 114, 115, 63>>,
     o |-> <<<<77, 97, 110, 100, 97, 114, 105, 110, 32, 67, 104, 105, 110, 101, 115, 101>>, <<69, 110, 103, 108, 105, 115, 104>>, <<83, 112, 97, 110, 105, 115, 104>>, <<72, 105, 110, 100, 105>>>>,
     c |-> 0, d |-> "hard"],
    \* "What is the capital of Canada?" (Ottawa, Toronto, Vancouver, Montreal)
    [t |-> <<87, 104, 97, 116, 32, 105, 115, 32, 116, 104, 101, 32, 99, 97, 112, 105, 116, 97, 108, 32, 111, 102, 32, 67, 97, 110, 97, 100, 97, 63>>,
     o |-> <<<<79, 116, 116, 97, 119, 97>>, <<84, 111, 114, 111, 110, 116, 111>>, <<86, 97, 110, 99, 111, 117, 118, 101, 114>>, <<77, 111, 110, 116, 114, 101, 97, 108>>>>,
     c |-> 0, d |-> "hard"]
  >>

\* qKeyFromRaw and passEasyFilter tabulated over the known questions, so that
\* each is evaluated once per question instead of once per use
KeyTable ==
  [p \in {<<q.question, q.correct_answer>> : q \in KnownQuestions}
     |-> qKeyFromRaw(p[1], p[2])]
    @@ <<>>
FilterTable == [q \in KnownQuestions |-> passEasyFilter(q)] @@ <<>>

LookupKey(table, p) == IF p \in DOMAIN table THEN table[p] ELSE qKeyFromRaw(p[1], p[2])

KeyOfText(question, correct) == LookupKey(KeyTable, <<question, correct>>)

\* qKey(q), as basicClean recorded it
qKey(q) == q.key

LookupFilter(table, q) == IF q \in DOMAIN table THEN table[q] ELSE passEasyFilter(q)

\* a variant of the filter: only the lengths are checked
PassesLengthOnly(q) == withinLength(q)

Passes(q) == LookupFilter(FilterTable, q)

validGen(q) ==
  IF q.question = <<>> \/ q.correct_answer = <<>> THEN FALSE
  ELSE IF Len(q.incorrect_answers) # 3 THEN FALSE
  ELSE IF ~isRelatableCategory(q.category) THEN FALSE
  ELSE Passes(q)

HasKey(list, k) == \E i \in 1..Len(list) : qKey(list[i]) = k

\* dedupe: drop what the ledger holds and repeats within the pool
RECURSIVE DedupeFrom(_, _, _, _)
DedupeFrom(arr, i, seen, out) ==
  IF i > Len(arr) THEN out
  ELSE LET key == qKey(arr[i])
       IN  IF key \in seen \/ HasKey(out, key)
           THEN DedupeFrom(arr, i + 1, seen, out)
           ELSE DedupeFrom(arr, i + 1, seen, Append(out, arr[i]))

\* a variant of dedupe: repeats within the pool are dropped, the ledger is not consulted
dedupeLocalOnly(arr, seen) == DedupeFrom(arr, 1, {}, <<>>)

dedupe(arr, seen) == DedupeFrom(arr, 1, seen, <<>>)

\* category.toLowerCase() === 'general knowledge', for the categories modelled
isGK(q) == q.category \in {"General Knowledge", "general knowledge", "GENERAL KNOWLEDGE"}

favorGK(arr) == SelectSeq(arr, isGK) \o SelectSeq(arr, LAMBDA q : ~isGK(q))

pick(arr, n) == SubSeq(arr, 1, Max(0, Min(n, Len(arr))))

needGK == 2

\* the loop building uniqueGK
RECURSIVE UniqueGKFrom(_, _, _)
UniqueGKFrom(gkPicks, i, out) ==
  IF i > Len(gkPicks) THEN out
  ELSE IF ~HasKey(out, qKey(gkPicks[i])) /\ Len(out) < needGK
       THEN UniqueGKFrom(gkPicks, i + 1, Append(out, gkPicks[i]))
       ELSE UniqueGKFrom(gkPicks, i + 1, out)

\* the loop placing the guaranteed GK picks first
RECURSIVE PlaceFrom(_, _, _)
PlaceFrom(list, i, chosen0) ==
  IF i > Len(list) THEN chosen0
  ELSE IF ~HasKey(chosen0, qKey(list[i]))
       THEN PlaceFrom(list, i + 1, Append(chosen0, list[i]))
       ELSE PlaceFrom(list, i + 1, chosen0)

\* addFrom(pool, howMany), from element i on; yields the new chosen
RECURSIVE AddFromAt(_, _, _, _)
AddFromAt(chosen0, pool, i, howMany) ==
  IF i > Len(pool) THEN chosen0
  ELSE IF Len(chosen0) >= 5 THEN chosen0
  ELSE IF HasKey(chosen0, qKey(pool[i])) THEN AddFromAt(chosen0, pool, i + 1, howMany)
  ELSE IF howMany - 1 <= 0 THEN Append(chosen0, pool[i])
  ELSE AddFromAt(Append(chosen0, pool[i]), pool, i + 1, howMany - 1)

addFrom(chosen0, pool, howMany) == AddFromAt(chosen0, pool, 1, howMany)

dropChosen(arr, chosen0) == SelectSeq(arr, LAMBDA q : ~HasKey(chosen0, qKey(q)))

\* steps 3 of main: the questions chosen from the three prepared pools
Select(easy, medium, hard) ==
  LET easyGK   == SelectSeq(easy, isGK)
      medGK    == SelectSeq(medium, isGK)
      gkPicks  == pick(easyGK, needGK)
                    \o pick(medGK, Max(0, needGK - Min(needGK, Len(easyGK))))
      uniqueGK == UniqueGKFrom(gkPicks, 1, <<>>)
      c0       == PlaceFrom(uniqueGK, 1, <<>>)
      easyAv0  == dropChosen(easy, c0)
      medAv0   == dropChosen(medium, c0)
      hardAv0  == dropChosen(hard, c0)
      c1       == addFrom(c0, easyAv0, 2)
      easyAv1  == dropChosen(easyAv0, c1)
      c2       == addFrom(c1, medAv0, 2)
      medAv1   == dropChosen(medAv0, c2)
      c3       == addFrom(c2, hardAv0, 1)
      hardAv1  == dropChosen(hardAv0, c3)
      remainder == easyAv1 \o medAv1 \o hardAv1
  IN  addFrom(c3, remainder, 5 - Len(c3))

\* the seed of the reroll mix
NonceSeed(nonce0, today0) == ParseHex32(fnv1a(nonce0 \o today0))

\* a variant of mix: the shuffled pool loses its first element
mixDropsOne(arr, nonceSeed, salt) ==
  SubSeq(seededShuffle(arr, Xor32(nonceSeed, WordOf(salt))), 2, Len(arr))

mix(arr, nonceSeed, salt) == seededShuffle(arr, Xor32(nonceSeed, WordOf(salt)))

favorAll(p) == [easy |-> favorGK(p.easy), medium |-> favorGK(p.medium), hard |-> p.hard]

mixAll(p, nonceSeed) ==
  AsPools([d \in Difficulties |->
             mix(p[d], nonceSeed, [easy |-> 4369, medium |-> 8738, hard |-> 13107][d])])

mixIfReroll(p, nonce0, today0) ==
  IF nonce0 # <<>> THEN mixAll(p, NonceSeed(nonce0, today0)) ELSE p

\* step 2 of main, from the fetched pools to easy, medium, hard
Prepare(pools0, seen, nonce0, today0) ==
  mixIfReroll(
    favorAll(AsPools([d \in Difficulties |-> dedupe(SelectSeq(pools0[d], Passes), seen)])),
    nonce0, today0)

\* Array.prototype.sort with the GK-first comparator (stable)
SortGKFirst(list) ==
  SelectSeq(list, LAMBDA q : q.category = "General Knowledge")
    \o SelectSeq(list, LAMBDA q : q.category # "General Knowledge")

\* a variant of FillFrom: chosen is not searched for the key
RECURSIVE FillFromUnchecked(_, _, _)
FillFromUnchecked(chosen0, sorted, i) ==
  IF i > Len(sorted) THEN chosen0
  ELSE IF Len(chosen0) >= 5 THEN chosen0
  ELSE FillFromUnchecked(Append(chosen0, sorted[i]), sorted, i + 1)

\* the LLM fill loop
RECURSIVE FillFrom(_, _, _)
FillFrom(chosen0, sorted, i) ==
  IF i > Len(sorted) THEN chosen0
  ELSE IF Len(chosen0) >= 5 THEN chosen0
  ELSE IF ~HasKey(chosen0, qKey(sorted[i]))
       THEN FillFrom(Append(chosen0, sorted[i]), sorted, i + 1)
       ELSE FillFrom(chosen0, sorted, i + 1)

\* a variant of LlmFill: the items are not checked against the ledger
LlmFillUnfiltered(chosen0, gen, seenAll) ==
  LET cleaned == Tuple([i \in 1..Len(gen) |-> basicClean(gen[i])])
  IN  FillFrom(chosen0, SortGKFirst(SelectSeq(cleaned, validGen)), 1)

LlmFill(chosen0, gen, seenAll) ==
  LET cleaned  == Tuple([i \in 1..Len(gen) |-> basicClean(gen[i])])
      valid    == SelectSeq(cleaned, validGen)
      llmClean == SelectSeq(valid, LAMBDA q : qKey(q) \notin seenAll)
  IN  FillFrom(chosen0, SortGKFirst(llmClean), 1)

-----------------------------------------------------------------------------
(* The artifact and the ledger (generate-daily.cjs 263-270, 405-457).      *)

\* a variant of indexOf: the index the correct answer had before the shuffle
indexOfBeforeShuffle(opts, v) == 0

\* opts.indexOf(v): 0-based index of the first element equal to v, -1 if none
indexOf(opts, v) ==
  IF \E i \in 1..Len(opts) : opts[i] = v
  THEN (CHOOSE i \in 1..Len(opts) : opts[i] = v /\ \A j \in 1..(i - 1) : opts[j] # v) - 1
  ELSE -1

\* String.prototype.toLowerCase on the difficulty names modelled
lowerName(d) ==
  IF d = "Easy" THEN "easy" ELSE IF d = "Medium" THEN "medium" ELSE IF d = "Hard" THEN "hard" ELSE d

posDiff(idx) == IF idx < 2 THEN "easy" ELSE IF idx < 4 THEN "medium" ELSE "hard"

\* a variant of seedBase: the nonce is left out of the seed
seedBaseOfDayOnly(today0, nonce0) == WordOf(ParseDec(today0))

\* Number(today) ^ (REROLL_NONCE ? parseInt(fnv1a(REROLL_NONCE), 16) >>> 0 : 0), as a word
seedBase(today0, nonce0) ==
  Xor32(WordOf(ParseDec(today0)),
        IF nonce0 # <<>> THEN ParseHex32(fnv1a(nonce0)) ELSE <<0, 0>>)

\* the callback of chosen.slice(0, 5).map, idx counted from 0
OutputQuestion(q, idx, base) ==
  LET rawOpts == <<q.correct_answer>> \o q.incorrect_answers
      opts    == seededShuffle(rawOpts, Add32(base, WordOf(idx * 7)))
  IN  [text |-> q.question,
       options |-> opts,
       correct |-> indexOf(opts, q.correct_answer),
       difficulty |-> IF lowerName(q.difficulty) # "" THEN lowerName(q.difficulty) ELSE posDiff(idx),
       category |-> IF q.category # "" THEN q.category ELSE "General Knowledge"]

Final(chosen0, today0, nonce0) ==
  LET five == SubSeq(chosen0, 1, Min(5, Len(chosen0)))
  IN  Tuple([i \in 1..Len(five) |-> OutputQuestion(five[i], i - 1, seedBase(today0, nonce0))])

\* final.map(q => qKeyFromRaw(q.text, q.options[q.correct]))
newKeys(final0) ==
  Tuple([i \in 1..Len(final0) |->
           KeyOfText(final0[i].text, final0[i].options[final0[i].correct + 1])])

\* the questions of the hardcoded fallback artifact
FallbackQuestions ==
  <<
    \* "What is the capital of France?" (Paris, Rome, Madrid, Berlin)
    [text |-> <<87, 104, 97, 116, 32, 105, 115, 32, 116, 104, 101, 32, 99, 97, 112, 105, 116, 97, 108, 32, 111, 102, 32, 70, 114, 97, 110, 99, 101, 63>>,
     options |-> <<<<80, 97, 114, 105, 115>>, <<82, 111, 109, 101>>, <<77, 97, 100, 114, 105, 100>>, <<66, 101, 114, 108, 105, 110>>>>,
     correct |-> 0, difficulty |-> "easy", category |-> "General Knowledge"],
    \* "Which planet is known as the Red Planet?" (Mars, Jupiter, Venus, Saturn)
    [text |-> <<87, 104, 105, 99, 104, 32, 112, 108, 97, 110, 101, 116, 32, 105, 115, 32, 107, 110, 111, 119, 110, 32, 97, 115, 32, 116, 104, 101, 32, 82, 101, 100, 32, 80, 108, 97, 110, 101, 116, 63>>,
     options |-> <<<<77, 97, 114, 115>>, <<74, 117, 112, 105, 116, 101, 114>>, <<86, 101, 110, 117, 115>>, <<83, 97, 116, 117, 114, 110>>>>,
     correct |-> 0, difficulty |-> "easy", category |-> "Science & Nature"],
    \* "What is H2O commonly called?" (Water, Hydrogen, Oxygen, Salt)
    [text |-> <<87, 104, 97, 116, 32, 105, 115, 32, 72, 50, 79, 32, 99, 111, 109, 109, 111, 110, 108, 121, 32, 99, 97, 108, 108, 101, 100, 63>>,
     options |-> <<<<87, 97, 116, 101, 114>>, <<72, 121, 100, 114, 111, 103, 101, 110>>, <<79, 120, 121, 103, 101, 110>>, <<83, 97, 108, 116>>>>,
     correct |-> 0, difficulty |-> "medium", category |-> "Science & Nature"],
    \* "How many minutes are in an hour?" (60, 30, 90, 120)
    [text |-> <<72, 111, 119, 32, 109, 97, 110, 121, 32, 109, 105, 110, 117, 116, 101, 115, 32, 97, 114, 101, 32, 105, 110, 32, 97, 110, 32, 104, 111, 117, 114, 63>>,
     options |-> <<<<54, 48>>, <<51, 48>>, <<57, 48>>, <<49, 50, 48>>>>,
     correct |-> 0, difficulty |-> "medium", category |-> "General Knowledge"],
    \* "Which number is a prime?" (13, 21, 27, 33)
    [text |-> <<87, 104, 105, 99, 104, 32, 110, 117, 109, 98, 101, 114, 32, 105, 115, 32, 97, 32, 112, 114, 105, 109, 101, 63>>,
     options |-> <<<<49, 51>>, <<50, 49>>, <<50, 55>>, <<51, 51>>>>,
     correct |-> 0, difficulty |-> "hard", category |-> "General Knowledge"]
  >>

\* daily.json: absent, or a payload
NoDaily == [exists |-> FALSE, day |-> <<>>, dayIndex |-> 0, reroll |-> "absent", questions |-> <<>>]

Payload(today0, dayIndex0, nonce0, final0) ==
  [exists |-> TRUE, day |-> today0, dayIndex |-> dayIndex0,
   reroll |-> IF nonce0 # <<>> THEN "true" ELSE "false", questions |-> final0]

\* the fallback object of the catch block (it has no reroll field)
Fallback(today0, dayIndex0) ==
  [exists |-> TRUE, day |-> today0, dayIndex |-> dayIndex0,
   reroll |-> "absent", questions |-> FallbackQuestions]

\* used.json by the shape of its content: kind is "missing", "empty" (zero
\* bytes), "invalid" (not JSON), "null", "array" (items are its elements) or
\* "object" (hasSeen: whether it has a seen property, an array)
LedgerFile(kind0, hasSeen0, seen0, items0) ==
  [kind |-> kind0, hasSeen |-> hasSeen0, seen |-> seen0, items |-> items0]

\* lines 264-269: the value of used before line 270
\* ("null" is the value null; an array keeps its elements in items)
ParseLedger(file) ==
  IF file.kind \in {"missing", "empty", "invalid"}
  THEN [kind |-> "object", hasSeen |-> FALSE, seen |-> <<>>, items |-> <<>>]
  ELSE [kind |-> file.kind, hasSeen |-> file.hasSeen, seen |-> file.seen, items |-> file.items]

\* line 270, used.seen = used.seen || [], on an object or an array
\* (on null the property read throws)
DefaultSeen(u) == [u EXCEPT !.hasSeen = TRUE, !.seen = IF u.hasSeen THEN u.seen ELSE <<>>]

\* JSON.stringify(used): an array is written as its elements, its seen
\* property is not part of the text
Stringify(u) ==
  IF u.kind = "array"
  THEN LedgerFile("array", FALSE, <<>>, u.items)
  ELSE LedgerFile("object", TRUE, u.seen, <<>>)

-----------------------------------------------------------------------------
(* The runs of the script as a state machine (generate-daily.cjs 254-458). *)

VARIABLES
  clock,        \* the ET calendar date, <<year, month, day>>
  dailyFile,    \* daily.json
  usedFile,     \* used.json
  runs,         \* runs of the script that have ended
  pc,           \* where the current run stands ("idle": no run)
  today,        \* const today
  dayIndex,     \* const dayIndex
  nonce,        \* const REROLL_NONCE
  apiKey,       \* whether process.env.OPENAI_API_KEY is set
  used,         \* let used, the ledger in memory
  fetched,      \* the difficulties whose fetchPool promise has resolved
  pools,        \* easyPool, medPool, hardPool
  fresh,        \* easy, medium, hard after filter, dedupe, favorGK and mix
  chosen,       \* const chosen
  final,        \* const final
  outcome,      \* how the run ended
  dailyBefore,  \* daily.json as the run found it
  usedBefore,   \* used.json as the run found it
  \* one call of fetchPool, followed through the attempts of fetchJson
  url,          \* the difficulty the URL asks for
  retries,      \* the retries option of fetchJson
  attempt,      \* let attempt
  fjPc,         \* where fetchJson stands ("idle": no call)
  timer,        \* the timeout id of the attempt: "none", "armed", "cleared"
  trail,        \* how each attempt so far has ended
  slept,        \* the arguments of the calls of sleep so far
  thrown,       \* the error fetchJson threw
  json,         \* the value fetchJson returned
  promise,      \* the promise fetchPool returned
  \* one call of seededShuffle
  input,        \* the caller's array, passed as arr
  seedIn,       \* seedNum
  output,       \* the array returned
  given,        \* the caller's array as it was at the call
  \* the day/index calculator, day after day
  calDay,       \* an ET calendar date
  calIndex,     \* dayIndexFrom(START_DAY, that date)
  calPrev,      \* dayIndexFrom(START_DAY, the date before it)
  \* two calls of qKeyFromRaw
  textA,        \* <<question, correct>> of the first call
  textB,        \* <<question, correct>> of the second call
  edits,        \* how textB was made from textA
  keyOut,       \* what the calls returned
  \* the variant with a fallback bank: runs whose fetch fails, day after day
  bankDay,      \* the ET calendar date
  bankRan,      \* whether the run of that day has ended
  bankDaily,    \* daily.json
  bankPrev,     \* daily.json as the run found it
  bankSeen,     \* used.seen in used.json
  \* the variant with a slot lineup: its runs
  lineDay,      \* the ET calendar date
  lineRuns,     \* runs that have ended
  linePc,       \* where the current run stands ("idle": no run)
  lineSlot,     \* s, the index of the slot being filled
  lineCat,      \* the position in cats of the category being fetched
  lineUsed,     \* used, the ledger in memory
  lineChosen,   \* chosen
  lineOutcome,  \* how the run ended
  lineDaily,    \* daily.json
  lineLedger,   \* used.json
  lineBefore,   \* used.json as the run found it
  \* the site's today function: requests in flight
  siteVariant,  \* which of the two handlers is deployed
  siteDay,      \* the ET calendar date
  siteStore,    \* the blob store: the payload under each day's key
  siteReqs,     \* each request: where its handler stands and its locals
  siteOut       \* the responses sent

fetchVars == <<url, retries, attempt, fjPc, timer, trail, slept, thrown, json, promise>>
shuffleVars == <<input, seedIn, output, given>>
calendarVars == <<calDay, calIndex, calPrev>>
keyVars == <<textA, textB, edits, keyOut>>
bankVars == <<bankDay, bankRan, bankDaily, bankPrev, bankSeen>>
lineVars == <<lineDay, lineRuns, linePc, lineSlot, lineCat, lineUsed, lineChosen, lineOutcome,
              lineDaily, lineLedger, lineBefore>>
siteVars == <<siteVariant, siteDay, siteStore, siteReqs, siteOut>>
moreVars == <<lineVars, siteVars>>
laterVars == <<keyVars, bankVars, moreVars>>
harness == <<fetchVars, shuffleVars, calendarVars, laterVars>>

runVars == <<clock, dailyFile, usedFile, runs, pc, today, dayIndex, nonce, apiKey, used,
             fetched, pools, fresh, chosen, final, outcome, dailyBefore, usedBefore>>

vars == <<runVars, harness>>

files == <<dailyFile, usedFile>>
locals == <<today, dayIndex, nonce, apiKey, used, fetched, pools, fresh, chosen, final>>
ghosts == <<dailyBefore, usedBefore>>

NoPools == [easy |-> <<>>, medium |-> <<>>, hard |-> <<>>]
NoLedger == LedgerFile("missing", FALSE, <<>>, <<>>)
EmptyUsed == [kind |-> "object", hasSeen |-> FALSE, seen |-> <<>>, items |-> <<>>]

\* the day before FirstDay, the day of an artifact left by an earlier run
PrevDay == <<2025, 8, 30>>

\* the keys a run that chose E1, E2, E3, E4, M1 has appended
SeenBefore ==
  LET qs == fetchPool([hasResults |-> TRUE, results |-> <<E1, E2, E3, E4, M1>>])
  IN  Tuple([i \in 1..Len(qs) |-> qKey(qs[i])])

\* used.json as a run may find it
InitLedgers ==
  {NoLedger,
   LedgerFile("empty", FALSE, <<>>, <<>>),
   LedgerFile("invalid", FALSE, <<>>, <<>>),
   LedgerFile("null", FALSE, <<>>, <<>>),
   LedgerFile("array", FALSE, <<>>, <<>>),
   LedgerFile("object", FALSE, <<>>, <<>>),
   LedgerFile("object", TRUE, <<>>, <<>>),
   LedgerFile("object", TRUE, SeenBefore, <<>>)}

\* daily.json as a run may find it
InitDailies == {NoDaily, Fallback(yyyymmdd(PrevDay), dayIndexFrom(START_DAY, yyyymmdd(PrevDay)))}

\* no call of fetchPool is under way
NoPromise == [state |-> "none", value |-> <<>>]
FetchIdle ==
  /\ url = ""
  /\ retries = 0
  /\ attempt = 0
  /\ fjPc = "idle"
  /\ timer = "none"
  /\ trail = <<>>
  /\ slept = <<>>
  /\ thrown = ""
  /\ json = <<>>
  /\ promise = NoPromise

\* no call of seededShuffle is under way
ShuffleIdle ==
  /\ input = <<>>
  /\ seedIn = <<0, 0>>
  /\ output = <<>>
  /\ given = <<>>

\* no call of qKeyFromRaw is under way
KeyIdle ==
  /\ textA = <<>>
  /\ textB = <<>>
  /\ edits = <<0, 0>>
  /\ keyOut = <<>>

\* the variant with a fallback bank has not run
NoBankDaily == [exists |-> FALSE, day |-> <<>>, dayIndex |-> 0, questions |-> <<>>]
BankIdle ==
  /\ bankDay = <<2025, 8, 24>>
  /\ bankRan = FALSE
  /\ bankDaily = NoBankDaily
  /\ bankPrev = NoBankDaily
  /\ bankSeen = <<>>

\* the variant with a slot lineup has not run
NoLineLedger == [kind |-> "missing", items |-> <<>>]
LineIdle ==
  /\ lineDay = <<2025, 8, 24>>
  /\ lineRuns = 0
  /\ linePc = "idle"
  /\ lineSlot = 0
  /\ lineCat = 0
  /\ lineUsed = <<>>
  /\ lineChosen = <<>>
  /\ lineOutcome = "none"
  /\ lineDaily = NoBankDaily
  /\ lineLedger = NoLineLedger
  /\ lineBefore = NoLineLedger

\* no request has reached the site
SiteIdle ==
  /\ siteVariant = "part_007"
  /\ siteDay = <<2025, 8, 24>>
  /\ siteStore = <<>>
  /\ siteReqs = <<>>
  /\ siteOut = {}

MoreIdle == LineIdle /\ SiteIdle
LaterIdle == KeyIdle /\ BankIdle /\ MoreIdle

\* the calculator stands at the first day it is asked about
CalendarBefore == <<2025, 8, 19>>
CalendarIdle ==
  /\ calDay = NextDate(CalendarBefore)
  /\ calIndex = dayIndexFrom(START_DAY, yyyymmdd(NextDate(CalendarBefore)))
  /\ calPrev = dayIndexFrom(START_DAY, yyyymmdd(CalendarBefore))

Init ==
  /\ FetchIdle
  /\ ShuffleIdle
  /\ CalendarIdle
  /\ LaterIdle
  /\ clock = FirstDay
  /\ dailyFile \in InitDailies
  /\ usedFile \in InitLedgers
  /\ runs = 0
  /\ pc = "idle"
  /\ today = <<>>
  /\ dayIndex = 0
  /\ nonce = <<>>
  /\ apiKey = FALSE
  /\ used = EmptyUsed
  /\ fetched = {}
  /\ pools = NoPools
  /\ fresh = NoPools
  /\ chosen = <<>>
  /\ final = <<>>
  /\ outcome = "none"
  /\ dailyBefore = NoDaily
  /\ usedBefore = NoLedger

\* a day passes between two runs
Tick ==
  /\ pc = "idle"
  /\ DateUTCDays(clock[1], clock[2], clock[3])
       - DateUTCDays(FirstDay[1], FirstDay[2], FirstDay[3]) < MaxDay
  /\ clock' = NextDate(clock)
  /\ UNCHANGED <<files, runs, pc, locals, outcome, ghosts, harness>>

\* lines 255-270: the run starts, reads its environment and loads the ledger;
\* on a ledger holding null, line 270 throws outside any try and the run
\* ends there
Start(nonce0, apiKey0) ==
  /\ pc = "idle"
  /\ runs < MaxRuns
  /\ today' = yyyymmdd(clock)
  /\ dayIndex' = dayIndexFrom(START_DAY, yyyymmdd(clock))
  /\ nonce' = nonce0
  /\ apiKey' = apiKey0
  /\ dailyBefore' = dailyFile
  /\ usedBefore' = usedFile
  /\ IF ParseLedger(usedFile).kind = "null"
     THEN /\ pc' = "done"
          /\ outcome' = "crashed"
          /\ used' = used
     ELSE /\ pc' = "fetch"
          /\ outcome' = "none"
          /\ used' = DefaultSeen(ParseLedger(usedFile))
  /\ UNCHANGED <<clock, files, runs, fetched, pools, fresh, chosen, final, harness>>

\* one of the three fetchPool promises resolves
FetchResolves(d, value) ==
  /\ pc = "fetch"
  /\ d \notin fetched
  /\ fetched' = fetched \cup {d}
  /\ pools' = [pools EXCEPT ![d] = value]
  /\ UNCHANGED <<clock, files, runs, pc, today, dayIndex, nonce, apiKey, used, fresh,
                 chosen, final, outcome, ghosts, harness>>

\* one of the three fetchPool promises rejects (fetchJson has used up its
\* attempts): Promise.all rejects and control passes to the catch block
FetchRejects(d) ==
  /\ pc = "fetch"
  /\ d \notin fetched
  /\ pc' = "catch"
  /\ UNCHANGED <<clock, files, runs, locals, outcome, ghosts, harness>>

\* a variant of Build: the run goes on with two pools once one fetch failed
BuildOnTwoPools ==
  /\ pc = "fetch"
  /\ Cardinality(fetched) >= 2
  /\ fresh' = Prepare(pools, Range(used.seen), nonce, today)
  /\ chosen' = Select(fresh'.easy, fresh'.medium, fresh'.hard)
  /\ pc' = IF Len(chosen') < 5 /\ apiKey THEN "llm" ELSE "check"
  /\ UNCHANGED <<clock, files, runs, today, dayIndex, nonce, apiKey, used, fetched, pools,
                 final, outcome, ghosts, harness>>

\* lines 280-377: filter, dedupe, favorGK, mix and the selection
Build ==
  /\ pc = "fetch"
  /\ fetched = Difficulties
  /\ fresh' = Prepare(pools, Range(used.seen), nonce, today)
  /\ chosen' = Select(fresh'.easy, fresh'.medium, fresh'.hard)
  /\ pc' = IF Len(chosen') < 5 /\ apiKey THEN "llm" ELSE "check"
  /\ UNCHANGED <<clock, files, runs, today, dayIndex, nonce, apiKey, used, fetched, pools,
                 final, outcome, ghosts, harness>>

\* lines 380-399: the LLM answers and its questions fill chosen
LlmResolves(gen) ==
  /\ pc = "llm"
  /\ chosen' = LlmFill(chosen, gen, Range(used.seen))
  /\ pc' = "check"
  /\ UNCHANGED <<clock, files, runs, today, dayIndex, nonce, apiKey, used, fetched, pools,
                 fresh, final, outcome, ghosts, harness>>

\* lines 400-402: the LLM call throws, the inner catch only warns
LlmFails ==
  /\ pc = "llm"
  /\ pc' = "check"
  /\ UNCHANGED <<clock, files, runs, locals, outcome, ghosts, harness>>

\* line 405: fewer than five questions, the run throws
NotEnough ==
  /\ pc = "check"
  /\ Len(chosen) < 5
  /\ pc' = "catch"
  /\ UNCHANGED <<clock, files, runs, locals, outcome, ghosts, harness>>

\* a variant of WriteDaily: the length check lets four questions pass
WriteDailyOfFour ==
  /\ pc = "check"
  /\ Len(chosen) >= 4
  /\ final' = Final(chosen, today, nonce)
  /\ dailyFile' = Payload(today, dayIndex, nonce, final')
  /\ pc' = "ledger"
  /\ UNCHANGED <<clock, usedFile, runs, today, dayIndex, nonce, apiKey, used, fetched, pools,
                 fresh, chosen, outcome, ghosts, harness>>

\* a variant of WriteDaily: the option shuffle is seeded with the number of
\* earlier runs as well
WriteDailySeededByRun ==
  /\ pc = "check"
  /\ Len(chosen) >= 5
  /\ final' = Final(chosen, today, IF runs > 0 THEN nonce \o <<48 + runs>> ELSE nonce)
  /\ dailyFile' = Payload(today, dayIndex, nonce, final')
  /\ pc' = "ledger"
  /\ UNCHANGED <<clock, usedFile, runs, today, dayIndex, nonce, apiKey, used, fetched, pools,
                 fresh, chosen, outcome, ghosts, harness>>

\* lines 407-427: shuffle the options and write daily.json
WriteDaily ==
  /\ pc = "check"
  /\ Len(chosen) >= 5
  /\ final' = Final(chosen, today, nonce)
  /\ dailyFile' = Payload(today, dayIndex, nonce, final')
  /\ pc' = "ledger"
  /\ UNCHANGED <<clock, usedFile, runs, today, dayIndex, nonce, apiKey, used, fetched, pools,
                 fresh, chosen, outcome, ghosts, harness>>

\* lines 429-434: append the new keys and write used.json
UpdateLedger ==
  /\ pc = "ledger"
  /\ used' = [used EXCEPT !.seen = used.seen \o newKeys(final)]
  /\ usedFile' = Stringify(used')
  /\ pc' = "done"
  /\ outcome' = "success"
  /\ UNCHANGED <<clock, dailyFile, runs, today, dayIndex, nonce, apiKey, fetched, pools,
                 fresh, chosen, final, ghosts, harness>>

\* a variant of Catch: no fallback is written
CatchWithoutFallback ==
  /\ pc = "catch"
  /\ pc' = "done"
  /\ outcome' = "failed"
  /\ UNCHANGED <<clock, files, runs, locals, ghosts, harness>>

\* a variant of Catch: the fallback is written over an existing daily.json too
CatchAlwaysFallback ==
  /\ pc = "catch"
  /\ dailyFile' = Fallback(yyyymmdd(clock), dayIndexFrom(START_DAY, yyyymmdd(clock)))
  /\ pc' = "done"
  /\ outcome' = "failed"
  /\ UNCHANGED <<clock, usedFile, runs, locals, ghosts, harness>>

\* a variant of Catch: the ledger in memory is saved as well
CatchSavesLedger ==
  /\ pc = "catch"
  /\ dailyFile' = IF ~dailyFile.exists
                  THEN Fallback(yyyymmdd(clock), dayIndexFrom(START_DAY, yyyymmdd(clock)))
                  ELSE dailyFile
  /\ usedFile' = Stringify(used)
  /\ pc' = "done"
  /\ outcome' = "failed"
  /\ UNCHANGED <<clock, runs, locals, ghosts, harness>>

\* lines 436-457: the catch block; the fallback is written only when no
\* daily.json exists
Catch ==
  /\ pc = "catch"
  /\ dailyFile' = IF ~dailyFile.exists
                  THEN Fallback(yyyymmdd(clock), dayIndexFrom(START_DAY, yyyymmdd(clock)))
                  ELSE dailyFile
  /\ pc' = "done"
  /\ outcome' = "failed"
  /\ UNCHANGED <<clock, usedFile, runs, locals, ghosts, harness>>

\* the process ends
Exit ==
  /\ pc = "done"
  /\ pc' = "idle"
  /\ runs' = runs + 1
  /\ today' = <<>>
  /\ dayIndex' = 0
  /\ nonce' = <<>>
  /\ apiKey' = FALSE
  /\ used' = EmptyUsed
  /\ fetched' = {}
  /\ pools' = NoPools
  /\ fresh' = NoPools
  /\ chosen' = <<>>
  /\ final' = <<>>
  /\ outcome' = "none"
  /\ dailyBefore' = NoDaily
  /\ usedBefore' = NoLedger
  /\ UNCHANGED <<clock, files, harness>>

Next ==
  \/ Tick
  \/ \E nonce0 \in Nonces, apiKey0 \in BOOLEAN : Start(nonce0, apiKey0)
  \/ \E d \in Difficulties : \E value \in PoolValues[d] : FetchResolves(d, value)
  \/ \E d \in Difficulties : FetchRejects(d)
  \/ Build
  \/ \E gen \in LlmValues : LlmResolves(gen)
  \/ LlmFails
  \/ NotEnough
  \/ WriteDaily
  \/ UpdateLedger
  \/ Catch
  \/ Exit

Spec == Init /\ [][Next]_vars

-----------------------------------------------------------------------------
(* The same runs on a file system whose writes may fail.                   *)

\* line 426 throws: final is built, daily.json is not written
WriteDailyThrows ==
  /\ pc = "check"
  /\ Len(chosen) >= 5
  /\ final' = Final(chosen, today, nonce)
  /\ pc' = "catch"
  /\ UNCHANGED <<clock, files, runs, today, dayIndex, nonce, apiKey, used, fetched, pools,
                 fresh, chosen, outcome, ghosts, harness>>

\* line 433 throws: used.seen is assigned, used.json is not written
UpdateLedgerThrows ==
  /\ pc = "ledger"
  /\ used' = [used EXCEPT !.seen = used.seen \o newKeys(final)]
  /\ pc' = "catch"
  /\ UNCHANGED <<clock, files, runs, today, dayIndex, nonce, apiKey, fetched, pools,
                 fresh, chosen, final, outcome, ghosts, harness>>

\* line 454 throws inside the catch block: nothing handles it
FallbackWriteThrows ==
  /\ pc = "catch"
  /\ ~dailyFile.exists
  /\ pc' = "done"
  /\ outcome' = "crashed"
  /\ UNCHANGED <<clock, files, runs, locals, ghosts, harness>>

NextIO ==
  \/ Next
  \/ WriteDailyThrows
  \/ UpdateLedgerThrows
  \/ FallbackWriteThrows

SpecIO == Init /\ [][NextIO]_vars

-----------------------------------------------------------------------------
(* One call of fetchPool (generate-daily.cjs 111-127, 189-195), followed    *)
(* through the attempts of fetchJson.  Spec above takes each fetchPool      *)
(* promise by its outcome (FetchResolves, FetchRejects); here the steps     *)
(* that lead to the outcome are told apart.  The server decides whether     *)
(* and how a request is answered; the timer and the sleeps are the          *)
(* script's.                                                                *)

\* values of the retries option of fetchJson: the default, which every call
\* of the script takes, and one attempt more
RetriesOptions == {RETRIES, RETRIES + 1}

\* HTTP statuses the server may answer with
Statuses == {200, 429, 500}

\* res.ok
IsOk(status) == status >= 200 /\ status <= 299

\* the message of new Error('HTTP ' + res.status)
HttpError(status) == IF status = 429 THEN "HTTP 429" ELSE IF status = 500 THEN "HTTP 500" ELSE "HTTP"

\* fetchPool's value for each body the API may send, computed once
PoolTable == [d \in Difficulties |-> [data \in ApiData[d] |-> fetchPool(data)] @@ <<>>] @@ <<>>

LookupPool(table, d, data) == table[d][data]

\* no run of the script is under way and none has been
RunRest ==
  /\ clock = FirstDay
  /\ dailyFile = NoDaily
  /\ usedFile = NoLedger
  /\ runs = 0
  /\ pc = "idle"
  /\ today = <<>>
  /\ dayIndex = 0
  /\ nonce = <<>>
  /\ apiKey = FALSE
  /\ used = EmptyUsed
  /\ fetched = {}
  /\ pools = NoPools
  /\ fresh = NoPools
  /\ chosen = <<>>
  /\ final = <<>>
  /\ outcome = "none"
  /\ dailyBefore = NoDaily
  /\ usedBefore = NoLedger

InitFetch == RunRest /\ FetchIdle /\ ShuffleIdle /\ CalendarIdle /\ LaterIdle

\* lines 190-192 and 113-117: fetchPool calls fetchJson, whose first attempt
\* arms its timer and sends the request
FetchPoolCall(d, n) ==
  /\ fjPc = "idle"
  /\ promise.state = "none"
  /\ url' = d
  /\ retries' = n
  /\ attempt' = 1
  /\ timer' = "armed"
  /\ fjPc' = "fetch"
  /\ promise' = [state |-> "pending", value |-> <<>>]
  /\ UNCHANGED <<trail, slept, thrown, json, runVars, shuffleVars, calendarVars, laterVars>>

\* a variant of CatchAttempt: the last attempt is told by attempt > retries
CatchOneMore(e) ==
  /\ timer' = "cleared"
  /\ trail' = Append(trail, e)
  /\ IF attempt = retries + 1
     THEN /\ fjPc' = "threw"
          /\ thrown' = e
          /\ slept' = slept
     ELSE /\ fjPc' = "sleep"
          /\ thrown' = thrown
          /\ slept' = Append(slept, 1000 * attempt)
  /\ UNCHANGED <<url, retries, attempt, json, promise, runVars, shuffleVars, calendarVars, laterVars>>

\* lines 121-125: the catch block of an attempt that failed with e
CatchAttempt(e) ==
  /\ timer' = "cleared"
  /\ trail' = Append(trail, e)
  /\ IF attempt = retries
     THEN /\ fjPc' = "threw"
          /\ thrown' = e
          /\ slept' = slept
     ELSE /\ fjPc' = "sleep"
          /\ thrown' = thrown
          /\ slept' = Append(slept, 1000 * attempt)
  /\ UNCHANGED <<url, retries, attempt, json, promise, runVars, shuffleVars, calendarVars, laterVars>>

\* line 117 rejects: the request fails on the network
RequestFails ==
  /\ fjPc = "fetch"
  /\ CatchAttempt("network")

\* line 115: the timer fires and ac.abort() rejects what the attempt awaits
TimerFires ==
  /\ timer = "armed"
  /\ fjPc \in {"fetch", "json"}
  /\ CatchAttempt("abort")

\* lines 117-119: the response arrives; the timer is cleared, and a status
\* that is not ok is thrown
ResponseArrives(status) ==
  /\ fjPc = "fetch"
  /\ IF IsOk(status)
     THEN /\ timer' = "cleared"
          /\ fjPc' = "json"
          /\ UNCHANGED <<url, retries, attempt, trail, slept, thrown, json, promise,
                         runVars, shuffleVars, calendarVars, laterVars>>
     ELSE CatchAttempt(HttpError(status))

\* line 120: the body arrives and parses, fetchJson returns it
BodyParsed ==
  /\ fjPc = "json"
  /\ \E data \in ApiData[url] : json' = <<data>>
  /\ trail' = Append(trail, "ok")
  /\ fjPc' = "returned"
  /\ UNCHANGED <<url, retries, attempt, timer, slept, thrown, promise,
                 runVars, shuffleVars, calendarVars, laterVars>>

\* line 120 rejects: the body is no JSON, or the connection breaks
BodyFails(e) ==
  /\ fjPc = "json"
  /\ CatchAttempt(e)

\* lines 124 and 113-117: the sleep ends and the next attempt starts
SleepEnds ==
  /\ fjPc = "sleep"
  /\ attempt' = attempt + 1
  /\ timer' = "armed"
  /\ fjPc' = "fetch"
  /\ UNCHANGED <<url, retries, trail, slept, thrown, json, promise,
                 runVars, shuffleVars, calendarVars, laterVars>>

\* lines 193-194: fetchPool maps the results, or nothing, to its value
FetchPoolReturns ==
  /\ fjPc = "returned"
  /\ promise.state = "pending"
  /\ promise' = [state |-> "fulfilled", value |-> LookupPool(PoolTable, url, json[1])]
  /\ UNCHANGED <<url, retries, attempt, fjPc, timer, trail, slept, thrown, json,
                 runVars, shuffleVars, calendarVars, laterVars>>

\* line 192 throws what fetchJson threw
FetchPoolThrows ==
  /\ fjPc = "threw"
  /\ promise.state = "pending"
  /\ promise' = [state |-> "rejected", value |-> <<>>]
  /\ UNCHANGED <<url, retries, attempt, fjPc, timer, trail, slept, thrown, json,
                 runVars, shuffleVars, calendarVars, laterVars>>

NextFetch ==
  \/ \E d \in Difficulties, n \in RetriesOptions : FetchPoolCall(d, n)
  \/ RequestFails
  \/ TimerFires
  \/ \E status \in Statuses : ResponseArrives(status)
  \/ BodyParsed
  \/ \E e \in {"SyntaxError", "network"} : BodyFails(e)
  \/ SleepEnds
  \/ FetchPoolReturns
  \/ FetchPoolThrows

SpecFetch == InitFetch /\ [][NextFetch]_vars

\* the same with the event loop doing its part: timers fire, sleeps end and
\* continuations run; the server owes nothing
SpecFetchFair ==
  /\ InitFetch
  /\ [][NextFetch]_vars
  /\ WF_vars(TimerFires)
  /\ WF_vars(SleepEnds)
  /\ WF_vars(FetchPoolReturns)
  /\ WF_vars(FetchPoolThrows)

-----------------------------------------------------------------------------
(* One call of seededShuffle (generate-daily.cjs 138-146) on a list and a   *)
(* seed of the caller's choosing.                                           *)

MaxShuffleLen == 4   \* longest list shuffled

\* what the lists hold; a list may hold a value more than once
ShuffleItems == {"a", "b", "c"}

ShuffleInputs == UNION {[1..n -> ShuffleItems] : n \in 0..MaxShuffleLen}

\* 0, 1, 0xffffffff and Number('20250831')
ShuffleSeeds == {<<0, 0>>, <<0, 1>>, <<65535, 65535>>, WordOf(20250831)}

InitShuffle ==
  /\ RunRest
  /\ FetchIdle
  /\ CalendarIdle
  /\ LaterIdle
  /\ input \in ShuffleInputs
  /\ seedIn \in ShuffleSeeds
  /\ output = <<>>
  /\ given = <<>>

\* the call: out is a copy of arr, the loop swaps within out, out is returned
ShuffleCall ==
  /\ given = <<>>
  /\ given' = <<input>>
  /\ output' = seededShuffle(input, seedIn)
  /\ UNCHANGED <<input, seedIn, runVars, fetchVars, calendarVars, laterVars>>

SpecShuffle == InitShuffle /\ [][ShuffleCall]_vars

-----------------------------------------------------------------------------
(* dayIndexFrom (generate-daily.cjs 79-90) asked day after day.             *)

MaxCalendarDays == 930   \* days the calendar runs through

InitCalendar == RunRest /\ FetchIdle /\ ShuffleIdle /\ CalendarIdle /\ LaterIdle

\* the next ET calendar day
NextDay ==
  /\ DateUTCDays(calDay[1], calDay[2], calDay[3])
       - DateUTCDays(CalendarBefore[1], CalendarBefore[2], CalendarBefore[3]) < MaxCalendarDays
  /\ calDay' = NextDate(calDay)
  /\ calPrev' = calIndex
  /\ calIndex' = dayIndexFrom(START_DAY, yyyymmdd(NextDate(calDay)))
  /\ UNCHANGED <<runVars, fetchVars, shuffleVars, laterVars>>

SpecCalendar == InitCalendar /\ [][NextDay]_vars

-----------------------------------------------------------------------------
(* qKeyFromRaw (generate-daily.cjs 101-109) called on a question and on a   *)
(* copy of it that was typed otherwise: other letter case, other            *)
(* whitespace.  dedupe is then asked about the copy with the key of the     *)
(* original in the ledger.                                                  *)

\* the questions keyed: those of the first easy body, decoded
KeyTexts ==
  {<<q.question, q.correct_answer>> :
     q \in Range(fetchPool([hasResults |-> TRUE, results |-> <<E1, E2, E3, E4, E5>>]))}

ToUpperChar(c) == IF IsLower(c) THEN c - 32 ELSE c
ToUpperCase(s) == Tuple([i \in 1..Len(s) |-> ToUpperChar(s[i])])

\* ways of typing a text otherwise: 0 as it is, 1 in capitals, 2 in small
\* letters, 3 after two spaces, 4 before a space and a tab, 5 with every
\* space doubled, 6 with a tab and a line feed for every space, 7 between a
\* no-break space and a carriage return with its first letter in the other case
Retypings == 0..7

Retype(e, s) ==
  CASE e = 1 -> ToUpperCase(s)
    [] e = 2 -> ToLowerCase(s)
    [] e = 3 -> <<32, 32>> \o s
    [] e = 4 -> s \o <<32, 9>>
    [] e = 5 -> ReplaceAll(s, <<32>>, <<32, 32>>)
    [] e = 6 -> ReplaceAll(s, <<32>>, <<9, 10>>)
    [] e = 7 -> <<160>>
                  \o (IF s = <<>> THEN s
                      ELSE <<IF IsUpper(s[1]) THEN ToLowerChar(s[1]) ELSE ToUpperChar(s[1])>>
                             \o SubSeq(s, 2, Len(s)))
                  \o <<13>>
    [] OTHER -> s

InitKey ==
  /\ RunRest
  /\ FetchIdle
  /\ ShuffleIdle
  /\ CalendarIdle
  /\ BankIdle
  /\ MoreIdle
  /\ textA \in KeyTexts
  /\ edits \in Retypings \X Retypings
  /\ textB = <<Retype(edits[1], textA[1]), Retype(edits[2], textA[2])>>
  /\ keyOut = <<>>

\* both questions are keyed, the text of the second is normalized and the
\* result normalized again, and the second question goes through dedupe with
\* the key of the first in the ledger
KeyCall ==
  /\ keyOut = <<>>
  /\ keyOut' =
       <<[keyA  |-> qKeyFromRaw(textA[1], textA[2]),
          keyB  |-> qKeyFromRaw(textB[1], textB[2]),
          once  |-> normalizeText(textB[1]),
          twice |-> normalizeText(normalizeText(textB[1])),
          fresh |-> dedupe(<<WithKey([category |-> "", difficulty |-> "",
                                      question |-> textB[1], correct_answer |-> textB[2],
                                      incorrect_answers |-> <<>>])>>,
                           {qKeyFromRaw(textA[1], textA[2])})]>>
  /\ UNCHANGED <<textA, textB, edits, runVars, fetchVars, shuffleVars, calendarVars, bankVars,
                 moreVars>>

SpecKey == InitKey /\ [][KeyCall]_vars

-----------------------------------------------------------------------------
(* The variant of the generator with a built-in fallback bank               *)
(* (src/unnamed/part_004): when the fetch fails, the catch block builds the *)
(* day's artifact from the bank and writes daily.json and used.json.  One   *)
(* such run a day, from START_DAY on.                                       *)

MaxBankDays == 60   \* days with a failing fetch


\* q.t + '|' + q.o[q.c]
bankKey(q) == q.t \o <<124>> \o q.o[q.c + 1]

\* [...FALLBACK_BANK.slice(start), ...FALLBACK_BANK.slice(0, start)]
Rotated(bank, from) == SubSeq(bank, from + 1, Len(bank)) \o SubSeq(bank, 1, from)

\* the loop topping chosen up from rotated, from element i on; already is
\* the set built before the loop
RECURSIVE BankTopUp(_, _, _, _)
BankTopUp(chosen0, rotated, i, already) ==
  IF i > Len(rotated) THEN chosen0
  ELSE IF bankKey(rotated[i]) \in already THEN BankTopUp(chosen0, rotated, i + 1, already)
  ELSE IF Len(chosen0) + 1 >= 5 THEN Append(chosen0, rotated[i])
  ELSE BankTopUp(Append(chosen0, rotated[i]), rotated, i + 1, already)

\* chosen of buildFallback
BankChosen(dayIndex0) ==
  LET rotated == Rotated(FALLBACK_BANK, (dayIndex0 * 3) % Len(FALLBACK_BANK))
      firstFive == pick(SelectSeq(rotated, LAMBDA q : q.d = "easy"), 2)
                     \o pick(SelectSeq(rotated, LAMBDA q : q.d = "medium"), 2)
                     \o pick(SelectSeq(rotated, LAMBDA q : q.d = "hard"), 1)
  IN  IF Len(firstFive) < 5
      THEN BankTopUp(firstFive, rotated, 1, {bankKey(firstFive[i]) : i \in 1..Len(firstFive)})
      ELSE firstFive

\* the callback of chosen.slice(0,5).map, idx counted from 0
BankQuestion(q, idx, seed) ==
  LET opts == seededShuffle(q.o, Add32(seed, WordOf(idx * 7)))
  IN  [text |-> q.t, options |-> opts, correct |-> indexOf(opts, q.o[q.c + 1]),
       difficulty |-> q.d]

\* buildFallback(today, dayIndex, used): final and used.seen
buildFallback(today0, dayIndex0, seen0) ==
  LET five   == pick(BankChosen(dayIndex0), 5)
      final0 == Tuple([i \in 1..Len(five) |->
                         BankQuestion(five[i], i - 1, WordOf(ParseDec(today0)))])
  IN  [final |-> final0, seen |-> seen0 \o newKeys(final0)]

InitBank ==
  /\ RunRest
  /\ FetchIdle
  /\ ShuffleIdle
  /\ CalendarIdle
  /\ KeyIdle
  /\ BankIdle
  /\ MoreIdle

\* a run whose fetch fails: the catch block writes the fallback artifact and
\* the ledger
BankRun ==
  /\ ~bankRan
  /\ bankDaily' = [exists |-> TRUE, day |-> yyyymmdd(bankDay),
                   dayIndex |-> dayIndexFrom(START_DAY, yyyymmdd(bankDay)),
                   questions |-> buildFallback(yyyymmdd(bankDay),
                                               dayIndexFrom(START_DAY, yyyymmdd(bankDay)),
                                               bankSeen).final]
  /\ bankSeen' = buildFallback(yyyymmdd(bankDay), dayIndexFrom(START_DAY, yyyymmdd(bankDay)),
                              bankSeen).seen
  /\ bankPrev' = bankDaily
  /\ bankRan' = TRUE
  /\ UNCHANGED <<bankDay, runVars, fetchVars, shuffleVars, calendarVars, keyVars, moreVars>>

\* the next day
BankTick ==
  /\ bankRan
  /\ bankDaily.dayIndex < MaxBankDays
  /\ bankDay' = NextDate(bankDay)
  /\ bankRan' = FALSE
  /\ UNCHANGED <<bankDaily, bankPrev, bankSeen, runVars, fetchVars, shuffleVars, calendarVars,
                 keyVars, moreVars>>

NextBank == BankRun \/ BankTick

SpecBank == InitBank /\ [][NextBank]_vars

------------------------------------------------------------------------------
(* The variant with a slot lineup (src/unnamed/part_000): one question is   *)
(* picked per slot of LINEUP and reserved in the ledger at once; the ledger *)
(* is an array of {h, t, d} capped at LEDGER_MAX entries.                   *)

MaxLineRuns == 2   \* runs of the script

LEDGER_MAX == 730  \* 365 * 2

\* CATS: GK 9, FILM 11, MUSIC 12, TV 14, COMP 18, SPORTS 21, GEO 22, HIST 23
CATS == {9, 11, 12, 14, 18, 21, 22, 23}

LINEUP ==
  <<[difficulty |-> "easy",   pools |-> <<9, 11, 14, 12>>],
    [difficulty |-> "easy",   pools |-> <<21, 9, 12, 14>>],
    [difficulty |-> "medium", pools |-> <<22, 23, 9>>],
    [difficulty |-> "medium", pools |-> <<11, 14, 12, 18, 9>>],
    [difficulty |-> "hard",   pools |-> <<9, 22, 23, 21>>]>>

\* the entities decodeEntities replaces, in the order of its replace calls
LineEntities ==
  <<
    <<<<38, 113, 117, 111, 116, 59>>, <<34>>>>,
    <<<<38, 35, 48, 51, 57, 59>>, <<39>>>>,
    <<<<38, 97, 109, 112, 59>>, <<38>>>>,
    <<<<38, 108, 116, 59>>, <<60>>>>,
    <<<<38, 103, 116, 59>>, <<62>>>>,
    <<<<38, 101, 97, 99, 117, 116, 101, 59>>, <<233>>>>,
    <<<<38, 108, 100, 113, 117, 111, 59>>, <<8220>>>>,
    <<<<38, 114, 100, 113, 117, 111, 59>>, <<8221>>>>,
    <<<<38, 108, 115, 113, 117, 111, 59>>, <<8216>>>>,
    <<<<38, 114, 115, 113, 117, 111, 59>>, <<8217>>>>>>

decodeEntities(s) ==
  LET D[k \in 0..Len(LineEntities)] ==
        IF k = 0 THEN s ELSE ReplaceAll(D[k - 1], LineEntities[k][1], LineEntities[k][2])
  IN  D[Len(LineEntities)]

\* h = Math.imul(h ^ s.charCodeAt(i), 16777619), over the characters of s
HashStep(h0, c) == Imul32(Xor32(h0, <<0, c>>), <<256, 403>>)

HashFold(s) ==
  LET H[i \in 0..Len(s)] ==
        IF i = 0 THEN FnvOffset
        ELSE LET prev == H[i - 1]
             IN  IF prev[1] >= 0 THEN HashStep(prev, s[i]) ELSE prev
  IN  H[Len(s)]

\* toString(16).padStart(8, '0')
PadStart8(s) == IF Len(s) >= 8 THEN s ELSE SubSeq(<<48, 48, 48, 48, 48, 48, 48, 48>>, 1, 8 - Len(s)) \o s

hashText(s) == PadStart8(ToHex(HashFold(s)))

\* what the API holds: per category and difficulty two questions, the
\* first the longer one, with an entity in its text
CatName ==
  [c \in CATS |->
     CASE c = 9 -> <<71, 75>>  \* GK
       [] c = 11 -> <<70, 105, 108, 109>>  \* Film
       [] c = 12 -> <<77, 117, 115, 105, 99>>  \* Music
       [] c = 14 -> <<84, 86>>  \* TV
       [] c = 18 -> <<84, 101, 99, 104>>  \* Tech
       [] c = 21 -> <<83, 112, 111, 114, 116>>  \* Sport
       [] c = 22 -> <<71, 101, 111>>  \* Geo
       [] c = 23 -> <<72, 105, 115, 116, 111, 114, 121>>  \* History
     ]

DifficultyName(d) ==
  CASE d = "easy" -> <<101, 97, 115, 121>>
    [] d = "medium" -> <<109, 101, 100, 105, 117, 109>>
    [] d = "hard" -> <<104, 97, 114, 100>>

\* "<category> <difficulty> this &amp; that?" and "<category> <difficulty>?";
\* of the hard questions the API holds only the second of General Knowledge
OtdbResults(category, difficulty) ==
  LET both ==
        <<[question |-> CatName[category] \o <<32>> \o DifficultyName(difficulty) \o <<32, 116, 104, 105, 115, 32, 38, 97, 109, 112, 59, 32, 116, 104, 97, 116, 63>>,
           correct_answer |-> <<89, 101, 115, 32, 38, 97, 109, 112, 59, 32, 110, 111>>, incorrect_answers |-> <<<<89, 101, 115>>, <<78, 111>>, <<77, 97, 121, 98, 101>>>>],
          [question |-> CatName[category] \o <<32>> \o DifficultyName(difficulty) \o <<63>>,
           correct_answer |-> <<70, 111, 117, 114>>, incorrect_answers |-> <<<<79, 110, 101>>, <<84, 119, 111>>, <<84, 104, 114, 101, 101>>>>]>>
  IN  IF difficulty # "hard" THEN both
      ELSE IF category = 9 THEN <<both[2]>>
      ELSE <<>>

\* the questions of the fallback object of the catch block
LineFallbackQuestions ==
  <<
    \* "Which city is home to the Eiffel Tower?" (Paris, Rome, Madrid, Berlin)
    [text |-> <<87, 104, 105, 99, 104, 32, 99, 105, 116, 121, 32, 105, 115, 32, 104, 111, 109, 101, 32, 116, 111, 32, 116, 104, 101, 32, 69, 105, 102, 102, 101, 108, 32, 84, 111, 119, 101, 114, 63>>,
     options |-> <<<<80, 97, 114, 105, 115>>, <<82, 111, 109, 101>>, <<77, 97, 100, 114, 105, 100>>, <<66, 101, 114, 108, 105, 110>>>>,
     correct |-> 0, difficulty |-> "easy"],
    \* "What do bees make?" (Honey, Milk, Silk, Oil)
    [text |-> <<87, 104, 97, 116, 32, 100, 111, 32, 98, 101, 101, 115, 32, 109, 97, 107, 101, 63>>,
     options |-> <<<<72, 111, 110, 101, 121>>, <<77, 105, 108, 107>>, <<83, 105, 108, 107>>, <<79, 105, 108>>>>,
     correct |-> 0, difficulty |-> "easy"],
    \* "Which planet is called the Red Planet?" (Mars, Jupiter, Venus, Saturn)
    [text |-> <<87, 104, 105, 99, 104, 32, 112, 108, 97, 110, 101, 116, 32, 105, 115, 32, 99, 97, 108, 108, 101, 100, 32, 116, 104, 101, 32, 82, 101, 100, 32, 80, 108, 97, 110, 101, 116, 63>>,
     options |-> <<<<77, 97, 114, 115>>, <<74, 117, 112, 105, 116, 101, 114>>, <<86, 101, 110, 117, 115>>, <<83, 97, 116, 117, 114, 110>>>>,
     correct |-> 0, difficulty |-> "medium"],
    \* "Who painted the Mona Lisa?" (Leonardo da Vinci, Michelangelo, Raphael, Donatello)
    [text |-> <<87, 104, 111, 32, 112, 97, 105, 110, 116, 101, 100, 32, 116, 104, 101, 32, 77, 111, 110, 97, 32, 76, 105, 115, 97, 63>>,
     options |-> <<<<76, 101, 111, 110, 97, 114, 100, 111, 32, 100, 97, 32, 86, 105, 110, 99, 105>>, <<77, 105, 99, 104, 101, 108, 97, 110, 103, 101, 108, 111>>, <<82, 97, 112, 104, 97, 101, 108>>, <<68, 111, 110, 97, 116, 101, 108, 108, 111>>>>,
     correct |-> 0, difficulty |-> "medium"],
    \* "What is H2O commonly known as?" (Water, Hydrogen, Oxygen, Salt)
    [text |-> <<87, 104, 97, 116, 32, 105, 115, 32, 72, 50, 79, 32, 99, 111, 109, 109, 111, 110, 108, 121, 32, 107, 110, 111, 119, 110, 32, 97, 115, 63>>,
     options |-> <<<<87, 97, 116, 101, 114>>, <<72, 121, 100, 114, 111, 103, 101, 110>>, <<79, 120, 121, 103, 101, 110>>, <<83, 97, 108, 116>>>>,
     correct |-> 0, difficulty |-> "hard"]
  >>

\* what getFromOTDB returns for a payload with these results
OtdbBatch(results, category, difficulty) ==
  Tuple([i \in 1..Len(results) |->
           [text |-> decodeEntities(results[i].question),
            correct_answer |-> decodeEntities(results[i].correct_answer),
            incorrect_answers |->
              Tuple([j \in 1..Len(results[i].incorrect_answers) |->
                       decodeEntities(results[i].incorrect_answers[j])]),
            category |-> category, difficulty |-> difficulty]])

\* (computed once per category and difficulty, and once per text)
BatchTable ==
  [p \in CATS \X {"easy", "medium", "hard"} |-> OtdbBatch(OtdbResults(p[1], p[2]), p[1], p[2])]
    @@ <<>>
HashTable ==
  [t \in UNION {{BatchTable[p][i].text : i \in 1..Len(BatchTable[p])} : p \in DOMAIN BatchTable}
     |-> hashText(t)]
    @@ <<>>
LookupHash(table, t) == IF t \in DOMAIN table THEN table[t] ELSE hashText(t)
HashOf(t) == LookupHash(HashTable, t)

\* getFromOTDB as its outcome once its attempts are over: the array it
\* returns (the call throws in LineFetchThrows)
getFromOTDB(category, difficulty) == BatchTable[<<category, difficulty>>]

\* used.json: kind is "missing", "array" (items are its elements) or
\* "object" (JSON that is not an array)
LedgerArray(items0) == [kind |-> "array", items |-> items0]

\* the entry an earlier run added as the i-th
OldEntry(i) ==
  [h |-> PadStart8(ToHex(WordOf(i))), t |-> <<81>> \o ToHex(WordOf(i)),
   d |-> <<50, 48, 50, 53, 48, 49, 48, 49>>]
OldEntries(n) == Tuple([i \in 1..n |-> OldEntry(i)])

LedgerLengths == {0, 724, 727, 730, 733}
LineLedgers ==
  {NoLineLedger, [kind |-> "object", items |-> <<>>]}
    \cup {LedgerArray(OldEntries(n)) : n \in LedgerLengths}

\* a daily.json of the day before the first run
OldLineDaily ==
  [exists |-> TRUE, day |-> <<50, 48, 50, 53, 48, 56, 50, 51>>, dayIndex |-> 1,
   questions |-> LineFallbackQuestions]

\* readJSON(USED_PATH, [])
ReadUsed(file) == IF file.kind = "array" THEN file.items ELSE <<>>

\* new Set(used.map(x => x.h)) with the hashes added since: every push to
\* used comes with an add to usedSet
UsedSet(used0) == {used0[i].h : i \in 1..Len(used0)}

\* cats of pickForSlot
SlotCats(s, day) == seededShuffle(LINEUP[s].pools, WordOf(ParseDec(day)))

\* batch.filter(q => !usedSet.has(hashText(q.text)))
FreshOf(batch, used0) ==
  LET IsFresh(q) == HashOf(q.text) \notin UsedSet(used0)
  IN  SelectSeq(batch, IsFresh)

\* fresh.sort((a, b) => a.text.length - b.text.length)[0]: the first of the
\* shortest (the sort is stable)
Shortest(fresh0) ==
  fresh0[CHOOSE i \in 1..Len(fresh0) :
           \A j \in 1..Len(fresh0) :
             \/ Len(fresh0[i].text) < Len(fresh0[j].text)
             \/ Len(fresh0[i].text) = Len(fresh0[j].text) /\ i <= j]

\* the object pickForSlot returns for q
SlotPick(q, category, difficulty, day) ==
  [text |-> q.text,
   options |-> seededShuffle(<<q.correct_answer>> \o q.incorrect_answers,
                             WordOf(ParseDec(day) + category)),
   correct |-> indexOf(seededShuffle(<<q.correct_answer>> \o q.incorrect_answers,
                                     WordOf(ParseDec(day) + category)),
                       q.correct_answer),
   difficulty |-> difficulty]

\* used.push({ h, t: pick.text, d: day })
Reserve(used0, picked, day) ==
  Append(used0, [h |-> HashOf(picked.text), t |-> picked.text, d |-> day])

\* a variant of CapLedger: the oldest entries are kept
CapLedgerKeepsOldest(used0) ==
  IF Len(used0) > LEDGER_MAX THEN SubSeq(used0, 1, LEDGER_MAX) ELSE used0

\* if (used.length > LEDGER_MAX) used.splice(0, used.length - LEDGER_MAX)
CapLedger(used0) ==
  IF Len(used0) > LEDGER_MAX
  THEN SubSeq(used0, Len(used0) - LEDGER_MAX + 1, Len(used0))
  ELSE used0

LinePayload(day, chosen0) ==
  [exists |-> TRUE, day |-> day, dayIndex |-> dayIndexFrom(START_DAY, day),
   questions |-> chosen0]

LineFallback(day) ==
  [exists |-> TRUE, day |-> day, dayIndex |-> dayIndexFrom(START_DAY, day),
   questions |-> LineFallbackQuestions]

InitLine ==
  /\ RunRest
  /\ FetchIdle
  /\ ShuffleIdle
  /\ CalendarIdle
  /\ KeyIdle
  /\ BankIdle
  /\ SiteIdle
  /\ lineDay = <<2025, 8, 24>>
  /\ lineRuns = 0
  /\ linePc = "idle"
  /\ lineSlot = 0
  /\ lineCat = 0
  /\ lineUsed = <<>>
  /\ lineChosen = <<>>
  /\ lineOutcome = "none"
  /\ lineDaily \in {NoBankDaily, OldLineDaily}
  /\ lineLedger \in LineLedgers
  /\ lineBefore = NoLineLedger

lineOthers == <<runVars, fetchVars, shuffleVars, calendarVars, keyVars, bankVars, siteVars>>

\* the run starts: the ledger is read; used.map throws, outside the try
\* block, when the ledger is not an array
LineStart ==
  /\ linePc = "idle"
  /\ lineBefore' = lineLedger
  /\ IF lineLedger.kind = "object"
     THEN /\ linePc' = "done"
          /\ lineOutcome' = "crashed"
          /\ UNCHANGED <<lineSlot, lineCat, lineUsed, lineChosen>>
     ELSE /\ linePc' = "slots"
          /\ lineOutcome' = "running"
          /\ lineSlot' = 1
          /\ lineCat' = 1
          /\ lineUsed' = ReadUsed(lineLedger)
          /\ lineChosen' = <<>>
  /\ UNCHANGED <<lineDay, lineRuns, lineDaily, lineLedger, lineOthers>>

\* the catch block: the fallback object is written when there is no
\* daily.json, and that write may throw
LineCatch(daily0) ==
  /\ linePc' = "done"
  /\ \/ /\ daily0.exists
        /\ lineDaily' = daily0
        /\ lineOutcome' = "failed"
     \/ /\ ~daily0.exists
        /\ lineDaily' = LineFallback(yyyymmdd(lineDay))
        /\ lineOutcome' = "failed"
     \/ /\ ~daily0.exists
        /\ lineDaily' = daily0
        /\ lineOutcome' = "crashed"
  /\ UNCHANGED <<lineDay, lineRuns, lineSlot, lineCat, lineLedger, lineBefore, lineOthers>>

\* getFromOTDB throws after its last attempt
LineFetchThrows ==
  /\ linePc = "slots"
  /\ LineCatch(lineDaily)
  /\ UNCHANGED <<lineUsed, lineChosen>>

\* the batch holds no fresh question and a category is left: the next one
LineNextCat ==
  /\ linePc = "slots"
  /\ FreshOf(getFromOTDB(SlotCats(lineSlot, yyyymmdd(lineDay))[lineCat],
                         LINEUP[lineSlot].difficulty), lineUsed) = <<>>
  /\ lineCat < Len(LINEUP[lineSlot].pools)
  /\ lineCat' = lineCat + 1
  /\ UNCHANGED <<lineDay, lineRuns, linePc, lineSlot, lineUsed, lineChosen, lineOutcome,
                 lineDaily, lineLedger, lineBefore, lineOthers>>

\* no category is left: pickForSlot returns null and the run throws
LineNoFresh ==
  /\ linePc = "slots"
  /\ FreshOf(getFromOTDB(SlotCats(lineSlot, yyyymmdd(lineDay))[lineCat],
                         LINEUP[lineSlot].difficulty), lineUsed) = <<>>
  /\ lineCat = Len(LINEUP[lineSlot].pools)
  /\ LineCatch(lineDaily)
  /\ UNCHANGED <<lineUsed, lineChosen>>

\* the pick of the slot, from the batch of the category being fetched
Picked ==
  SlotPick(Shortest(FreshOf(getFromOTDB(SlotCats(lineSlot, yyyymmdd(lineDay))[lineCat],
                                        LINEUP[lineSlot].difficulty), lineUsed)),
           SlotCats(lineSlot, yyyymmdd(lineDay))[lineCat],
           LINEUP[lineSlot].difficulty, yyyymmdd(lineDay))

HasFresh ==
  FreshOf(getFromOTDB(SlotCats(lineSlot, yyyymmdd(lineDay))[lineCat],
                      LINEUP[lineSlot].difficulty), lineUsed) # <<>>

\* a slot before the last is filled: its hash is reserved at once
LinePicks ==
  /\ linePc = "slots"
  /\ HasFresh
  /\ lineSlot < Len(LINEUP)
  /\ lineChosen' = Append(lineChosen, Picked)
  /\ lineUsed' = Reserve(lineUsed, Picked, yyyymmdd(lineDay))
  /\ lineSlot' = lineSlot + 1
  /\ lineCat' = 1
  /\ UNCHANGED <<lineDay, lineRuns, linePc, lineOutcome, lineDaily, lineLedger, lineBefore,
                 lineOthers>>

\* the last slot is filled, the ledger capped and both files written
LineWrites ==
  /\ linePc = "slots"
  /\ HasFresh
  /\ lineSlot = Len(LINEUP)
  /\ lineChosen' = Append(lineChosen, Picked)
  /\ lineUsed' = CapLedger(Reserve(lineUsed, Picked, yyyymmdd(lineDay)))
  /\ lineDaily' = LinePayload(yyyymmdd(lineDay), Append(lineChosen, Picked))
  /\ lineLedger' = LedgerArray(CapLedger(Reserve(lineUsed, Picked, yyyymmdd(lineDay))))
  /\ linePc' = "done"
  /\ lineOutcome' = "written"
  /\ UNCHANGED <<lineDay, lineRuns, lineSlot, lineCat, lineBefore, lineOthers>>

\* the last slot is filled and the ledger capped, writing daily.json throws
LineWriteDailyThrows ==
  /\ linePc = "slots"
  /\ HasFresh
  /\ lineSlot = Len(LINEUP)
  /\ lineChosen' = Append(lineChosen, Picked)
  /\ lineUsed' = CapLedger(Reserve(lineUsed, Picked, yyyymmdd(lineDay)))
  /\ LineCatch(lineDaily)

\* daily.json is written, writing used.json throws
LineWriteLedgerThrows ==
  /\ linePc = "slots"
  /\ HasFresh
  /\ lineSlot = Len(LINEUP)
  /\ lineChosen' = Append(lineChosen, Picked)
  /\ lineUsed' = CapLedger(Reserve(lineUsed, Picked, yyyymmdd(lineDay)))
  /\ LineCatch(LinePayload(yyyymmdd(lineDay), Append(lineChosen, Picked)))

\* the process ends and its memory with it; the next run is on that day or
\* on the next
LineEnds ==
  /\ linePc = "done"
  /\ lineRuns + 1 < MaxLineRuns
  /\ lineRuns' = lineRuns + 1
  /\ lineDay' \in {lineDay, NextDate(lineDay)}
  /\ linePc' = "idle"
  /\ lineSlot' = 0
  /\ lineCat' = 0
  /\ lineUsed' = <<>>
  /\ lineChosen' = <<>>
  /\ lineOutcome' = "none"
  /\ UNCHANGED <<lineDaily, lineLedger, lineBefore, lineOthers>>

NextLine ==
  \/ LineStart
  \/ LineFetchThrows
  \/ LineNextCat
  \/ LineNoFresh
  \/ LinePicks
  \/ LineWrites
  \/ LineWriteDailyThrows
  \/ LineWriteLedgerThrows
  \/ LineEnds

SpecLine == InitLine /\ [][NextLine]_vars

------------------------------------------------------------------------------
(* The site's today function (src/unnamed/part_007 87-142, the handler of   *)
(* src/unnamed/part_008 is the same without the check of upstream.ok): the  *)
(* day's payload is looked up in the blob store and, when it is not there,  *)
(* built from one upstream call and stored. Requests are served             *)
(* concurrently: the handler of one may run between any two awaits of       *)
(* another. A payload is kept for three days, longer than the days here.    *)

\* the questions of the fallback object sent when upstream is not ok
SiteFallbackQuestions ==
  <<
    \* "What is the capital of France?" (Paris, Rome, Madrid, Berlin)
    [text |-> <<87, 104, 97, 116, 32, 105, 115, 32, 116, 104, 101, 32, 99, 97, 112, 105, 116, 97, 108, 32, 111, 102, 32, 70, 114, 97, 110, 99, 101, 63>>,
     options |-> <<<<80, 97, 114, 105, 115>>, <<82, 111, 109, 101>>, <<77, 97, 100, 114, 105, 100>>, <<66, 101, 114, 108, 105, 110>>>>,
     correct |-> 0],
    \* "Who painted the Mona Lisa?" (Leonardo da Vinci, Michelangelo, Raphael, Donatello)
    [text |-> <<87, 104, 111, 32, 112, 97, 105, 110, 116, 101, 100, 32, 116, 104, 101, 32, 77, 111, 110, 97, 32, 76, 105, 115, 97, 63>>,
     options |-> <<<<76, 101, 111, 110, 97, 114, 100, 111, 32, 100, 97, 32, 86, 105, 110, 99, 105>>, <<77, 105, 99, 104, 101, 108, 97, 110, 103, 101, 108, 111>>, <<82, 97, 112, 104, 97, 101, 108>>, <<68, 111, 110, 97, 116, 101, 108, 108, 111>>>>,
     correct |-> 0],
    \* "Which planet is known as the Red Planet?" (Mars, Jupiter, Venus, Saturn)
    [text |-> <<87, 104, 105, 99, 104, 32, 112, 108, 97, 110, 101, 116, 32, 105, 115, 32, 107, 110, 111, 119, 110, 32, 97, 115, 32, 116, 104, 101, 32, 82, 101, 100, 32, 80, 108, 97, 110, 101, 116, 63>>,
     options |-> <<<<77, 97, 114, 115>>, <<74, 117, 112, 105, 116, 101, 114>>, <<86, 101, 110, 117, 115>>, <<83, 97, 116, 117, 114, 110>>>>,
     correct |-> 0],
    \* "What is H2O commonly known as?" (Water, Hydrogen, Oxygen, Salt)
    [text |-> <<87, 104, 97, 116, 32, 105, 115, 32, 72, 50, 79, 32, 99, 111, 109, 109, 111, 110, 108, 121, 32, 107, 110, 111, 119, 110, 32, 97, 115, 63>>,
     options |-> <<<<87, 97, 116, 101, 114>>, <<72, 121, 100, 114, 111, 103, 101, 110>>, <<79, 120, 121, 103, 101, 110>>, <<83, 97, 108, 116>>>>,
     correct |-> 0],
    \* "What is 9 × 9?" (81, 72, 99, 64)
    [text |-> <<87, 104, 97, 116, 32, 105, 115, 32, 57, 32, 215, 32, 57, 63>>,
     options |-> <<<<56, 49>>, <<55, 50>>, <<57, 57>>, <<54, 52>>>>,
     correct |-> 0]
  >>

MaxRequests == 2   \* requests the site receives
MaxSiteDays == 1   \* ET calendar days that pass meanwhile

\* `daily-${dayStr}.json`
SiteKey(dayStr) == <<100, 97, 105, 108, 121, 45>> \o dayStr \o <<46, 106, 115, 111, 110>>

\* what upstream.json() may resolve to: the API draws its questions anew for
\* every call; the last body carries no results
UpstreamData ==
  {[hasResults |-> TRUE, results |-> <<E1, E2, E3, E4, E5>>],
   [hasResults |-> TRUE, results |-> <<M1, M2, M3, M4, H1>>],
   [hasResults |-> FALSE, results |-> <<>>]}

\* (data.results || []).map(...) of the handler of part_007 and of part_008
SiteQuestions(variant, data) ==
  Tuple([i \in 1..Len(data.results) |->
           IF variant = "part_007"
           THEN [text |-> data.results[i].question,
                 options |-> <<data.results[i].correct_answer>> \o data.results[i].incorrect_answers,
                 correct |-> 0,
                 category |-> data.results[i].category,
                 difficulty |-> data.results[i].difficulty]
           ELSE [text |-> data.results[i].question,
                 options |-> <<data.results[i].correct_answer>> \o data.results[i].incorrect_answers,
                 correct |-> 0]])

\* the object whose JSON text is the payload (the text stands for itself:
\* JSON.stringify is one-to-one on these objects)
SitePayload(dayStr, questions) == [day |-> dayStr, questions |-> questions]

NoPayload == SitePayload(<<>>, <<>>)
NoRequest == [pc |-> "none", dayStr |-> <<>>, payload |-> NoPayload]

\* a response: status and body, with the request, its day and what the body
\* was made from ("cache", "upstream", "fallback" or "error")
Response(r, dayStr, status, from, body) ==
  [req |-> r, day |-> dayStr, status |-> status, from |-> from, body |-> body]

InitSite ==
  /\ RunRest
  /\ FetchIdle
  /\ ShuffleIdle
  /\ CalendarIdle
  /\ KeyIdle
  /\ BankIdle
  /\ LineIdle
  /\ siteVariant \in {"part_007", "part_008"}
  /\ siteDay = <<2025, 8, 24>>
  /\ siteStore = <<>>
  /\ siteReqs = [r \in 1..MaxRequests |-> NoRequest]
  /\ siteOut = {}

siteOthers == <<runVars, fetchVars, shuffleVars, calendarVars, keyVars, bankVars, lineVars>>

\* a request arrives: the handler computes dayStr and key and calls store.get
SiteArrives(r) ==
  /\ siteReqs[r].pc = "none"
  /\ siteReqs' = [siteReqs EXCEPT ![r] = [pc |-> "get", dayStr |-> yyyymmdd(siteDay),
                                          payload |-> NoPayload]]
  /\ UNCHANGED <<siteVariant, siteDay, siteStore, siteOut, siteOthers>>

\* store.get resolves with the payload stored under the key: it is the body
\* of the response
SiteCacheHit(r) ==
  /\ siteReqs[r].pc = "get"
  /\ SiteKey(siteReqs[r].dayStr) \in DOMAIN siteStore
  /\ siteReqs' = [siteReqs EXCEPT ![r].pc = "done"]
  /\ siteOut' = siteOut \cup {Response(r, siteReqs[r].dayStr, 200, "cache",
                                       siteStore[SiteKey(siteReqs[r].dayStr)])}
  /\ UNCHANGED <<siteVariant, siteDay, siteStore, siteOthers>>

\* store.get resolves with null: the handler fetches upstream
SiteCacheMiss(r) ==
  /\ siteReqs[r].pc = "get"
  /\ SiteKey(siteReqs[r].dayStr) \notin DOMAIN siteStore
  /\ siteReqs' = [siteReqs EXCEPT ![r].pc = "fetch"]
  /\ UNCHANGED <<siteVariant, siteDay, siteStore, siteOut, siteOthers>>

\* the upstream response arrives and is ok, or the handler does not look
\* (part_008): upstream.json() is called
SiteUpstreamArrives(r) ==
  /\ siteReqs[r].pc = "fetch"
  /\ siteReqs' = [siteReqs EXCEPT ![r].pc = "json"]
  /\ UNCHANGED <<siteVariant, siteDay, siteStore, siteOut, siteOthers>>

\* the upstream response is not ok (part_007): the fallback object is sent
\* and nothing is stored
SiteUpstreamNotOk(r) ==
  /\ siteReqs[r].pc = "fetch"
  /\ siteVariant = "part_007"
  /\ siteReqs' = [siteReqs EXCEPT ![r].pc = "done"]
  /\ siteOut' = siteOut \cup {Response(r, siteReqs[r].dayStr, 200, "fallback",
                                       SitePayload(siteReqs[r].dayStr, SiteFallbackQuestions))}
  /\ UNCHANGED <<siteVariant, siteDay, siteStore, siteOthers>>

\* upstream.json() resolves: the payload is built and store.set is called
SiteParsed(r, data) ==
  /\ siteReqs[r].pc = "json"
  /\ siteReqs' = [siteReqs EXCEPT
                    ![r].pc = "set",
                    ![r].payload = SitePayload(siteReqs[r].dayStr, SiteQuestions(siteVariant, data))]
  /\ UNCHANGED <<siteVariant, siteDay, siteStore, siteOut, siteOthers>>

\* store.set resolves: the payload is under the key, over what was there,
\* and is the body of the response
SiteStored(r) ==
  /\ siteReqs[r].pc = "set"
  /\ siteStore' = (SiteKey(siteReqs[r].dayStr) :> siteReqs[r].payload) @@ siteStore
  /\ siteReqs' = [siteReqs EXCEPT ![r].pc = "done"]
  /\ siteOut' = siteOut \cup {Response(r, siteReqs[r].dayStr, 200, "upstream", siteReqs[r].payload)}
  /\ UNCHANGED <<siteVariant, siteDay, siteOthers>>

\* one of the awaited calls (store.get, fetch, upstream.json, store.set)
\* rejects: the catch block answers 500
SiteThrows(r) ==
  /\ siteReqs[r].pc \in {"get", "fetch", "json", "set"}
  /\ siteReqs' = [siteReqs EXCEPT ![r].pc = "done"]
  /\ siteOut' = siteOut \cup {Response(r, siteReqs[r].dayStr, 500, "error", NoPayload)}
  /\ UNCHANGED <<siteVariant, siteDay, siteStore, siteOthers>>

\* midnight in New York
SiteTick ==
  /\ dayIndexFrom(START_DAY, yyyymmdd(siteDay)) <= MaxSiteDays
  /\ siteDay' = NextDate(siteDay)
  /\ UNCHANGED <<siteVariant, siteStore, siteReqs, siteOut, siteOthers>>

NextSite ==
  \/ \E r \in 1..MaxRequests : SiteArrives(r)
  \/ \E r \in 1..MaxRequests : SiteCacheHit(r)
  \/ \E r \in 1..MaxRequests : SiteCacheMiss(r)
  \/ \E r \in 1..MaxRequests : SiteUpstreamArrives(r)
  \/ \E r \in 1..MaxRequests : SiteUpstreamNotOk(r)
  \/ \E r \in 1..MaxRequests : \E data \in UpstreamData : SiteParsed(r, data)
  \/ \E r \in 1..MaxRequests : SiteStored(r)
  \/ \E r \in 1..MaxRequests : SiteThrows(r)
  \/ SiteTick

SpecSite == InitSite /\ [][NextSite]_vars

-----------------------------------------------------------------------------
(* Properties.                                                             *)

\* used.seen as the run read it at its start
SeenAtStart == IF usedBefore.kind = "object" /\ usedBefore.hasSeen THEN usedBefore.seen ELSE <<>>

\* the run could not get one of its pools from the provider
ProviderFailed == pc = "done" /\ outcome = "failed" /\ fetched # Difficulties

WellFormed(q) == Len(q.options) = 4 /\ q.correct \in 0..3

\* C1: in every artifact built from API or LLM data, each question's correct
\* index lies within its options and options[correct] is the correct_answer
\* of the question it was made from, and that artifact is what is written
CorrectIndexInvariant ==
  /\ \A i \in 1..Len(final) :
       /\ final[i].correct \in 0..(Len(final[i].options) - 1)
       /\ final[i].options[final[i].correct + 1] = chosen[i].correct_answer
  /\ pc = "ledger" => dailyFile.questions = final

\* a rerolled artifact in which the shuffle moved a correct answer off slot 0
CorrectIndexWitness ==
  /\ pc = "ledger"
  /\ nonce # <<>>
  /\ \E i \in 1..Len(final) : final[i].correct > 0

\* C2: a run that has ended either left a daily.json it wrote, with exactly
\* five questions, or it failed and left daily.json and used.json as it found
\* them; and no daily.json ever holds another number of questions than five
FiveOrUntouched ==
  /\ dailyFile.exists => Len(dailyFile.questions) = 5
  /\ pc = "done" =>
       \/ /\ outcome = "success" \/ (outcome = "failed" /\ ~dailyBefore.exists)
          /\ dailyFile.exists
          /\ dailyFile.day = today
          /\ Len(dailyFile.questions) = 5
       \/ /\ outcome # "success"
          /\ dailyFile = dailyBefore
          /\ usedFile = usedBefore

\* a run that assembled fewer than five questions, with a daily.json in place
ShortRunLeavesFiles ==
  /\ pc = "done"
  /\ outcome = "failed"
  /\ fetched = Difficulties
  /\ Len(chosen) < 5
  /\ dailyBefore.exists

\* C3: no question of an artifact built from API or LLM data has its key in
\* used.seen as read at the start of the run
FreshAgainstLedger ==
  \A i \in 1..Len(final) :
    /\ qKey(chosen[i]) \notin Range(SeenAtStart)
    /\ KeyOfText(final[i].text, final[i].options[final[i].correct + 1]) \notin Range(SeenAtStart)

\* an artifact built against a non-empty ledger, with a question of the LLM
\* and questions of the pools in it
LlmFilledWithLedger ==
  /\ pc = "ledger"
  /\ SeenAtStart # <<>>
  /\ \E i \in 1..Len(chosen) : chosen[i] \notin Range(fresh.easy \o fresh.medium \o fresh.hard)
  /\ \E i \in 1..Len(chosen) : chosen[i] \in Range(fresh.medium)

\* C4: when a pool fetch fails, daily.json exists at the end of the run and
\* holds exactly five well-formed questions
ProviderFailureStillFive ==
  ProviderFailed =>
    /\ dailyFile.exists
    /\ Len(dailyFile.questions) = 5
    /\ \A i \in 1..Len(dailyFile.questions) : WellFormed(dailyFile.questions[i])

\* a fetch failed and no daily.json was there: the fallback was written
FallbackAfterFetchFailure ==
  /\ ProviderFailed
  /\ ~dailyBefore.exists
  /\ dailyFile.questions = FallbackQuestions

FailedBuildKeepsFiles ==
  pc = "done" /\ outcome = "failed" =>
    /\ usedFile = usedBefore
    /\ dailyBefore.exists => dailyFile = dailyBefore

\* a build that came up short wrote the fallback and left a ledger with
\* entries alone
FallbackWrittenLedgerKept ==
  /\ pc = "done"
  /\ outcome = "failed"
  /\ fetched = Difficulties
  /\ ~dailyBefore.exists
  /\ dailyFile.exists
  /\ usedBefore.seen # <<>>


\* whether used.json holds an object with a seen array
Malformed(file) == ~(file.kind = "object" /\ file.hasSeen)

\* C7: no run (here: of those that found a well-formed used.json) ends with
\* its new artifact in daily.json and used.json without that artifact's five
\* keys
WritesAreAUnit ==
  /\ pc = "done"
  /\ ~Malformed(usedBefore)
  /\ final # <<>>
  /\ dailyFile = Payload(today, dayIndex, nonce, final)
  => \A k \in Range(newKeys(final)) : k \in Range(usedFile.seen)

\* C8: a run that found used.json missing, empty, not JSON, or JSON that is
\* no object with a seen array, does not crash, works with an empty dedup
\* set, and on success has the five new keys in used.json
MalformedLedgerTolerated ==
  pc # "idle" /\ Malformed(usedBefore) =>
    /\ outcome # "crashed"
    /\ pc \in {"fetch", "llm", "check"} => used.seen = <<>>
    /\ outcome = "success" =>
         /\ usedFile.kind = "object"
         /\ usedFile.seen = newKeys(final)

\* C9: after a successful run used.seen in used.json is the used.seen read
\* at the start followed by the five keys of the artifact, in its order
LedgerAppendOnly ==
  outcome = "success" =>
    /\ usedFile.kind = "object"
    /\ usedFile.hasSeen
    /\ usedFile.seen = SeenAtStart \o newKeys(final)

\* how many of the chosen questions come from a pool
FromPool(pool) == Cardinality({i \in 1..Len(chosen) : chosen[i] \in Range(pool)})

\* C10: when the fresh pools hold at least 2 easy, 2 medium and 1 hard
\* question, the selection is 2 easy, 2 medium and 1 hard
QuotaTwoTwoOne ==
  pc = "check" /\ Len(fresh.easy) >= 2 /\ Len(fresh.medium) >= 2 /\ Len(fresh.hard) >= 1 =>
    /\ Len(chosen) = 5
    /\ FromPool(fresh.easy) = 2
    /\ FromPool(fresh.medium) = 2
    /\ FromPool(fresh.hard) = 1

\* the fresh pools as one list, and the keys of the General Knowledge
\* questions of a list
FreshAll == fresh.easy \o fresh.medium \o fresh.hard
GKKeys(list) == {qKey(list[i]) : i \in {j \in 1..Len(list) : isGK(list[j])}}

\* C11: when the fresh pools hold at least 2 General Knowledge questions,
\* counted over easy, medium and hard, at least 2 of the selected questions
\* are General Knowledge, and the selection never exceeds 5
GKMinimumFromAnyBucket ==
  pc = "check" /\ Cardinality(GKKeys(FreshAll)) >= 2 =>
    /\ Cardinality(GKKeys(chosen)) >= 2
    /\ Len(chosen) <= 5

\* the category a question has in the artifact, and the distinct questions
\* of a list that have category c
categoryOf(q) == IF q.category # "" THEN q.category ELSE "General Knowledge"
KeysIn(list, c) == {qKey(list[i]) : i \in {j \in 1..Len(list) : categoryOf(list[j]) = c}}
CategoriesOf(list) == {categoryOf(list[i]) : i \in 1..Len(list)}

\* how many questions a selection can take from a list with at most 2 per category
RECURSIVE CappedSupply(_, _)
CappedSupply(list, cats) ==
  IF cats = {} THEN 0
  ELSE LET c == CHOOSE x \in cats : TRUE
       IN  Min(2, Cardinality(KeysIn(list, c))) + CappedSupply(list, cats \ {c})

\* C12: when the fresh pools hold 5 questions with no category more than
\* twice among them, no category occurs more than twice among the 5 selected
CategoryCap ==
  pc = "check" /\ Len(chosen) = 5 /\ CappedSupply(FreshAll, CategoriesOf(FreshAll)) >= 5 =>
    \A c \in CategoriesOf(chosen) : Cardinality(KeysIn(chosen, c)) <= 2

\* the pools a run with no nonce prepares from the same day, fetched pools
\* and ledger, and what it selects from them
PlainPools == Prepare(pools, Range(used.seen), <<>>, today)
SelectFrom(p) == Select(p.easy, p.medium, p.hard)

\* C13 (as stated): a run with a nonce selects the same 5 questions as a run
\* with no nonce on the same day, fetched pools and ledger
RerollKeepsSelection ==
  pc = "check" /\ nonce # <<>> /\ Len(SelectFrom(PlainPools)) = 5 =>
    Range(chosen) = Range(SelectFrom(PlainPools))

\* C13 (amended): a run with a nonce selects from the same fresh questions
\* per difficulty as a run with no nonce, and as many questions; a run with
\* no nonce takes its pools in the order the API gave them, GK first
RerollDrawsFromSamePools ==
  pc = "check" =>
    /\ \A d \in Difficulties :
         /\ Range(fresh[d]) = Range(PlainPools[d])
         /\ Len(fresh[d]) = Len(PlainPools[d])
    /\ Len(SelectFrom(fresh)) = Len(SelectFrom(PlainPools))
    /\ nonce = <<>> => fresh = PlainPools

\* a rerolled run whose five questions are not those of the run with no nonce
RerollChangedSelection ==
  /\ pc = "check"
  /\ nonce # <<>>
  /\ Len(chosen) = 5
  /\ Len(SelectFrom(PlainPools)) = 5
  /\ Range(chosen) # Range(SelectFrom(PlainPools))

\* daily.json as a function of the day, the nonce, the fetched pools and
\* used.json
ArtifactOf(today0, nonce0, pools0, file) ==
  Payload(today0, dayIndexFrom(START_DAY, today0), nonce0,
          Final(SelectFrom(Prepare(pools0, Range(DefaultSeen(ParseLedger(file)).seen),
                                   nonce0, today0)),
                today0, nonce0))

\* the LLM fallback added nothing to chosen
WithoutLlm == \A i \in 1..Len(chosen) : chosen[i] \in Range(FreshAll)

\* how often x occurs in s
CountIn(s, x) == Cardinality({i \in 1..Len(s) : s[i] = x})

\* C14: seededShuffle returns a list of the length of its input with the
\* same elements as often; a list of length 0 or 1 comes back as it is; the
\* caller's array is as it was
ShuffleIsPermutation ==
  given # <<>> =>
    /\ Len(output) = Len(given[1])
    /\ \A x \in ShuffleItems : CountIn(output, x) = CountIn(given[1], x)
    /\ Len(given[1]) <= 1 => output = given[1]
    /\ input = given[1]

\* a list of four with a repeated value came back in another order
ShuffledFour ==
  /\ given # <<>>
  /\ Len(input) = 4
  /\ CountIn(input, "a") = 2
  /\ output # input

\* C15: the daily.json a run writes without the LLM fallback is determined
\* by its day, nonce, fetched pools and used.json: whatever the order in
\* which the fetches resolved, the daily.json found, the API key and the
\* runs before it
DeterministicArtifact ==
  final # <<>> /\ WithoutLlm /\ (pc = "ledger" \/ (pc = "done" /\ outcome = "success")) =>
    dailyFile = ArtifactOf(today, nonce, pools, usedBefore)

\* a second run, rerolled, with an API key it did not need, that wrote its
\* artifact over the one of the first run
SecondRunWroteArtifact ==
  /\ pc = "ledger"
  /\ runs = 1
  /\ nonce # <<>>
  /\ apiKey
  /\ WithoutLlm
  /\ dailyBefore.exists
  /\ dailyBefore.questions # FallbackQuestions

BeforeEpoch(c) == ParseDec(yyyymmdd(c)) < ParseDec(START_DAY)

\* the index is 1 on 20250824, 2 on 20250825, never below 1, and 1 before
\* the epoch
DayIndexScenario ==
  /\ calDay = <<2025, 8, 24>> => calIndex = 1
  /\ calDay = <<2025, 8, 25>> => calIndex = 2
  /\ calIndex >= 1
  /\ BeforeEpoch(calDay) => calIndex = 1

\* C16 (as stated): besides, the index of every day is the index of the day
\* before it plus 1
DayIndexCountsEveryDay ==
  /\ DayIndexScenario
  /\ calIndex = calPrev + 1

\* C16 (amended): besides, the index of every day after the epoch is the
\* index of the day before it plus 1, and up to the epoch both are 1
DayIndexCountsFromEpoch ==
  /\ DayIndexScenario
  /\ IF BeforeEpoch(calDay) \/ yyyymmdd(calDay) = START_DAY
     THEN calIndex = 1 /\ calPrev = 1
     ELSE calIndex = calPrev + 1

\* the step over the end of the year 2025, to the 131st day, and the step
\* over a 29 February
NewYearCounted ==
  \/ calDay = <<2026, 1, 1>> /\ calPrev = 130 /\ calIndex = 131
  \/ calDay = <<2028, 3, 1>> /\ calPrev = 920 /\ calIndex = 921

\* C17: fetchJson makes at most retries attempts (RETRIES, 3, by default);
\* it returns the first response that parsed and attempts nothing after it;
\* each failed attempt before the last is followed by one wait and one more
\* attempt; the failure of the last attempt is what it throws
AtMostRetriesAttempts ==
  fjPc # "idle" =>
    /\ attempt \in 1..retries
    /\ retries = RETRIES => attempt <= 3
    /\ Len(trail) = IF fjPc \in {"fetch", "json"} THEN attempt - 1 ELSE attempt
    /\ \A i \in 1..(Len(trail) - 1) : trail[i] # "ok"
    /\ Len(slept) = Cardinality({i \in 1..Len(trail) : trail[i] # "ok" /\ i < retries})
    /\ attempt = IF fjPc = "sleep" THEN Len(slept) ELSE Len(slept) + 1
    /\ fjPc = "returned" <=> (trail # <<>> /\ trail[Len(trail)] = "ok")
    /\ fjPc = "returned" <=> json # <<>>
    /\ fjPc = "threw" <=> (Len(trail) = retries /\ trail[retries] # "ok")
    /\ fjPc = "threw" => thrown = trail[retries]
    /\ promise.state = "rejected" => fjPc = "threw"
    /\ promise.state = "fulfilled" => fjPc = "returned"

\* with the default retries: a timeout, then a body that is no JSON, then a
\* response that parsed and was returned after two waits
ThirdAttemptReturned ==
  /\ retries = RETRIES
  /\ fjPc = "returned"
  /\ trail = <<"abort", "SyntaxError", "ok">>
  /\ Len(slept) = 2
  /\ promise.state = "fulfilled"

NoResultsIsAFailure ==
  /\ fjPc = "returned" => json[1].hasResults
  /\ promise.state = "fulfilled" => json[1].hasResults

\* C20: every call of fetchPool settles: each attempt of fetchJson ends,
\* by an answer or by its timer, whatever the server does
EveryCallSettles == (promise.state = "pending") ~> (promise.state \in {"fulfilled", "rejected"})

\* the nonce of the other run of the scenario, and the seed of the shuffle
\* of the question at position idx
OtherNonce(nonce0) == IF nonce0 = <<>> THEN <<97, 98, 99>> ELSE <<>>
QuestionSeed(today0, nonce0, idx) == Add32(seedBase(today0, nonce0), WordOf(idx * 7))

\* C21: on one day the run with nonce "abc" and the run with no nonce seed
\* the shuffle of every position 0..4 differently, and the options of at
\* least one of the five questions come out in another order under the one
\* seed than under the other; day and dayIndex of the artifact are those of
\* the day, the same as in an artifact an earlier run wrote that day; the
\* reroll flag is true exactly when the nonce is not empty
RerollSeedsDiffer ==
  pc = "ledger" =>
    LET otherFinal == Final(chosen, today, OtherNonce(nonce))
    IN  /\ \A idx \in 0..4 :
             QuestionSeed(today, nonce, idx) # QuestionSeed(today, OtherNonce(nonce), idx)
        /\ \E i \in 1..5 : final[i].options # otherFinal[i].options
        /\ dailyFile.day = yyyymmdd(clock)
        /\ dailyFile.dayIndex = dayIndexFrom(START_DAY, yyyymmdd(clock))
        /\ dailyFile.reroll = "true" <=> nonce # <<>>
        /\ dailyFile.reroll = "false" <=> nonce = <<>>
        /\ dailyBefore.exists /\ dailyBefore.day = today =>
             dailyFile.dayIndex = dailyBefore.dayIndex

\* a run with nonce "abc" wrote its artifact over the one a run with no
\* nonce wrote the same day; a question keeps its options in another order
\* than the seed of the run with no nonce gives them
RerollAfterPlainRun ==
  /\ pc = "ledger"
  /\ nonce = <<97, 98, 99>>
  /\ dailyBefore.exists
  /\ dailyBefore.day = today
  /\ dailyBefore.reroll = "false"
  /\ dailyFile.reroll = "true"
  /\ dailyFile.dayIndex = dailyBefore.dayIndex
  /\ \E i \in 1..5 : final[i].options # Final(chosen, today, <<>>)[i].options

\* a question of the artifact read back as a question: its text, the option
\* at its correct index, the other options, its category
AsQuestion(fq) ==
  [question |-> fq.text,
   correct_answer |-> fq.options[fq.correct + 1],
   incorrect_answers |->
     LET idx == SelectSeq(Indices(Len(fq.options)), LAMBDA i : i # fq.correct + 1)
     IN  Tuple([k \in 1..Len(idx) |-> fq.options[idx[k]]]),
   category |-> fq.category]

\* hasBannedPhrase tabulated over the texts of the known questions
BannedTable == [t \in {q.question : q \in KnownQuestions} |-> hasBannedPhrase(t)] @@ <<>>
LookupBanned(table, t) == IF t \in DOMAIN table THEN table[t] ELSE hasBannedPhrase(t)

\* the sub-checks of passEasyFilter on a question of the artifact
ArtifactQuestionPasses(fq) ==
  /\ withinLength(AsQuestion(fq))
  /\ ~LookupBanned(BannedTable, fq.text)
  /\ isRelatableCategory(fq.category)
  /\ CountUpper(fq.text) <= CountLower(fq.text) * 2

\* C22: every question of an artifact built from API or LLM data satisfies
\* the content filter (length of text and options, no banned phrase,
\* category allowed, capitals at most twice the small letters), as the
\* question it was made from passed passEasyFilter, whether a pool or the
\* LLM supplied it
ArtifactPassesFilter ==
  pc = "ledger" =>
    \A i \in 1..Len(dailyFile.questions) :
      /\ ArtifactQuestionPasses(dailyFile.questions[i])
      /\ LookupFilter(FilterTable, chosen[i])

\* an artifact with a question of the LLM in it, written by a run whose
\* pools held a question the filter rejects
FilteredPoolsAndLlm ==
  /\ pc = "ledger"
  /\ \E d \in Difficulties : \E i \in 1..Len(pools[d]) : ~LookupFilter(FilterTable, pools[d][i])
  /\ \E i \in 1..Len(chosen) : chosen[i] \notin Range(FreshAll)
  /\ \E i \in 1..Len(chosen) : chosen[i] \in Range(FreshAll)

\* C23: two questions whose text and correct answer differ only in letter
\* case, in whitespace at the ends or in the length and kind of whitespace
\* runs get the same key, and dedupe does not let the one through when the
\* key of the other is in the ledger; normalizing a normalized text changes
\* nothing
KeyIgnoresCaseAndSpacing ==
  keyOut # <<>> =>
    /\ keyOut[1].keyA = keyOut[1].keyB
    /\ keyOut[1].fresh = <<>>
    /\ keyOut[1].twice = keyOut[1].once
    /\ Len(keyOut[1].keyB) = 8

\* "Who sang "Hello"?" with its spaces doubled, and "Adele" after a
\* no-break space with a small a, keyed like the original
RetypedQuestionKeyed ==
  /\ keyOut # <<>>
  /\ edits = <<5, 7>>
  /\ textA[2] = <<65, 100, 101, 108, 101>>
  /\ textB # textA
  /\ keyOut[1].once # textB[1]
  /\ keyOut[1].keyA = keyOut[1].keyB

\* the keys of the questions of an artifact
ArtifactKeys(file) ==
  {KeyOfText(file.questions[i].text, file.questions[i].options[file.questions[i].correct + 1]) :
     i \in 1..Len(file.questions)}

\* C24: no question key of the artifact a run writes is a key of the
\* API-derived artifact an earlier run left in daily.json, on the same day
\* or on another, with or without a nonce, with failed runs in between
NeverServedTwice ==
  pc = "ledger" /\ dailyBefore.exists /\ dailyBefore.reroll # "absent" =>
    ArtifactKeys(dailyFile) \cap ArtifactKeys(dailyBefore) = {}

\* the texts of the questions of an artifact
TextsOf(file) == {file.questions[i].text : i \in 1..Len(file.questions)}

\* the fallback artifact holds 5 questions with 5 different texts, 2 easy,
\* 2 medium and 1 hard
FallbackBankFive ==
  bankDaily.exists =>
    /\ Len(bankDaily.questions) = 5
    /\ Cardinality(TextsOf(bankDaily)) = 5
    /\ [i \in 1..5 |-> bankDaily.questions[i].difficulty]
         = <<"easy", "easy", "medium", "medium", "hard">>

\* C25: when the fetch fails the run ships new questions: the fallback
\* artifact holds 5 different questions, 2 easy, 2 medium and 1 hard, for
\* every dayIndex from 1 on, and shares no question with the fallback
\* artifact of the dayIndex before
FallbackBankShipsNew ==
  /\ FallbackBankFive
  /\ bankDaily.exists /\ bankPrev.exists /\ bankDaily.dayIndex = bankPrev.dayIndex + 1 =>
       TextsOf(bankDaily) \cap TextsOf(bankPrev) = {}

\* the entries a run of the slot-lineup variant adds for its picks
LineAdded ==
  Tuple([i \in 1..Len(lineChosen) |->
           [h |-> HashOf(lineChosen[i].text), t |-> lineChosen[i].text, d |-> yyyymmdd(lineDay)]])

\* the ledger the run found followed by the entries it added
LineAll == ReadUsed(lineBefore) \o LineAdded

\* C26: after a successful run used.json holds at most LEDGER_MAX entries,
\* they are the most recently added ones in their order, the five entries of
\* the run among them; a run that has not ended or has failed, at a slot or
\* at a write, leaves used.json as it found it
LedgerCappedOldestFirst ==
  /\ linePc = "done" /\ lineOutcome = "written" =>
       /\ lineLedger.kind = "array"
       /\ Len(lineLedger.items) <= LEDGER_MAX
       /\ Len(lineLedger.items) = Min(Len(LineAll), LEDGER_MAX)
       /\ lineLedger.items
            = SubSeq(LineAll, Len(LineAll) - Len(lineLedger.items) + 1, Len(LineAll))
       /\ Len(lineChosen) = 5
       /\ SubSeq(lineLedger.items, Len(lineLedger.items) - 4, Len(lineLedger.items)) = LineAdded
  /\ linePc \in {"slots", "done"} /\ lineOutcome # "written" => lineLedger = lineBefore

\* a run found 727 entries and left 730, the oldest two evicted; the next
\* run reserved entries in memory and then failed
EvictedThenFailedAfterReserving ==
  /\ linePc = "done"
  /\ lineOutcome = "failed"
  /\ lineRuns = 1
  /\ lineLedger.kind = "array"
  /\ Len(lineLedger.items) = LEDGER_MAX
  /\ lineLedger.items[1] = OldEntry(3)
  /\ Len(lineChosen) >= 1
  /\ Len(lineUsed) > Len(lineLedger.items)

\* C27: the three fetches are all-or-nothing: a run one of whose fetches
\* failed, whichever it was and however many of the others had resolved
\* before, builds no artifact from the pools it got, leaves used.json as it
\* found it, and leaves daily.json as it found it or, when there was none,
\* writes the fallback object
FetchesAllOrNothing ==
  pc \in {"catch", "done"} /\ fetched # Difficulties =>
    /\ usedFile = usedBefore
    /\ final = <<>>
    /\ IF dailyBefore.exists THEN dailyFile = dailyBefore
       ELSE dailyFile \in {dailyBefore, Fallback(today, dayIndex)}

\* the fetch of the easy pool failed after the fetches of the medium and
\* the hard pool had resolved with questions
OneFailedAfterTwoResolved ==
  /\ pc = "done"
  /\ outcome = "failed"
  /\ fetched = {"medium", "hard"}
  /\ pools.medium # <<>>
  /\ pools.hard # <<>>

\* a question of the easy pool, placed as a General Knowledge pick, has the
\* key of a question of the medium pool
SharedAcrossPools ==
  \E i \in 1..Len(fresh.easy) : \E j \in 1..Len(fresh.medium) :
    /\ qKey(fresh.easy[i]) = qKey(fresh.medium[j])
    /\ isGK(fresh.easy[i])
    /\ chosen # <<>> /\ chosen[1] = fresh.easy[i]

\* the question the LLM output holds twice is among the chosen
TwiceInLlmOutput ==
  \E i \in 1..Len(chosen) : chosen[i].question = L1.text

\* C28: the five questions of every artifact written from API or LLM data
\* have five different keys, in the chosen array and as computed again from
\* the text and the correct option of the questions of daily.json
ArtifactKeysDistinct ==
  pc = "ledger" =>
    /\ Len(dailyFile.questions) = 5
    /\ Cardinality(ArtifactKeys(dailyFile)) = 5
    /\ Cardinality({qKey(chosen[i]) : i \in 1..Len(chosen)}) = Len(chosen)

\* an artifact was written by a run whose pools shared a question and whose
\* LLM output held a question twice
SharedQuestionsArtifact ==
  /\ pc = "ledger"
  /\ SharedAcrossPools
  /\ TwiceInLlmOutput

\* used.seen of a used.json ([] when the file holds no such array)
SeenIn(file) == IF file.kind = "object" /\ file.hasSeen THEN file.seen ELSE <<>>

NoRepeat(keys) == \A i, j \in 1..Len(keys) : i # j => keys[i] # keys[j]

\* C29: used.seen gains no duplicate: during and after a run that found
\* used.seen without a repeated entry, used.seen has none, in memory and in
\* used.json (so that, run after run, a ledger that started missing or
\* empty stays free of duplicates)
SeenGainsNoDuplicate ==
  pc # "idle" /\ NoRepeat(SeenIn(usedBefore)) =>
    /\ NoRepeat(SeenIn(usedFile))
    /\ used.kind = "object" => NoRepeat(used.seen)

\* the second of two successful runs has appended its five keys to the five
\* of the first, on a ledger that was missing or empty before the first
SecondRunAppended ==
  /\ pc = "done"
  /\ outcome = "success"
  /\ runs = 1
  /\ Len(SeenIn(usedBefore)) = 5
  /\ SeenIn(usedBefore) # SeenBefore
  /\ Len(SeenIn(usedFile)) = 10

\* the responses whose body was built from upstream data, by the request
\* itself or by the one that stored it
FromUpstream == {o \in siteOut : o.from \in {"cache", "upstream"}}

\* C30: for one ET day all responses of the today function built from
\* upstream data carry the same questions, also when requests arrive while
\* the store holds nothing for the day
OneSetPerDay ==
  \A a, b \in FromUpstream : a.day = b.day => a.body.questions = b.body.questions

=============================================================================
